---- MODULE Spec2Model ----
(***************************************************************************)
(* Model of the analytics engine of trade-journal-analyzer:                *)
(*   src/src/models/trade.py            Trade                              *)
(*   src/src/analyzers/basic_stats.py   BasicStats                         *)
(*   src/src/analyzers/drawdown.py      DrawdownAnalyzer                   *)
(*   src/src/analyzers/time_analysis.py TimeAnalysis                       *)
(*   src/src/analyzers/performance_scorer.py PerformanceScorer             *)
(*   src/src/storage/database.py        TradeDatabase                      *)
(*                                                                         *)
(* Conventions.                                                            *)
(*   Optional[x]  : <<>> is None, <<v>> is the value v.                    *)
(*   datetime     : seconds since 00:00:00 of day 0 (a Monday).            *)
(*   Decimal money: an integer number of money units (exact arithmetic).   *)
(*   float        : an extended rational [n, d], d >= 0; d = 0 with n > 0  *)
(*                  is float('inf').                                       *)
(*   square root  : Surd(c, r) is c * sqrt(r).                             *)
(*   stored money : in the TradeDatabase a Decimal is sign, digits and     *)
(*                  exponent, and a double is the Decimal its str() prints.*)
(***************************************************************************)
EXTENDS Integers, Sequences, FiniteSets, TLC

VARIABLES
    trades,     \* the caller's trade list
    stats,      \* the BasicStats object, None before construction
    dda,        \* the DrawdownAnalyzer object
    ta,         \* the TimeAnalysis object
    scorer,     \* the PerformanceScorer object
    db,         \* the trades table of the TradeDatabase, None before construction
    ret         \* outcome of the last public accessor call

vars == <<trades, stats, dda, ta, scorer, db, ret>>

\* ------------------------------------------------------------------ bounds
MaxTrades == 3
MaxTimeTrades == 2
MaxRiskTrades == 3
MaxSaves == 3
MaxAdviceTrades == 8

\* ----------------------------------------------------------------- helpers
None == <<>>
Some(v) == <<v>>
Val(o) == o[1]

Minute == 60
Hour == 3600
Day == 86400

Abs(x) == IF x < 0 THEN -x ELSE x
Max2(a, b) == IF a >= b THEN a ELSE b
Min2(a, b) == IF a <= b THEN a ELSE b

RECURSIVE Gcd(_, _)
Gcd(a, b) == IF b = 0 THEN a ELSE Gcd(b, a % b)

\* floats as extended rationals, kept in lowest terms
Rat(n, d) ==
    IF d = 0 THEN [n |-> IF n > 0 THEN 1 ELSE IF n < 0 THEN -1 ELSE 0, d |-> 0]
    ELSE LET s == IF d < 0 THEN -1 ELSE 1
             g == Gcd(Abs(n), Abs(d))
         IN [n |-> (s * n) \div g, d |-> (s * d) \div g]
R(i) == [n |-> i, d |-> 1]
Inf == [n |-> 1, d |-> 0]
IsInf(x) == x.d = 0 /\ x.n > 0
RAdd(x, y) == IF x.d = 0 THEN x ELSE IF y.d = 0 THEN y
              ELSE Rat(x.n * y.d + y.n * x.d, x.d * y.d)
RSub(x, y) == RAdd(x, [n |-> -y.n, d |-> y.d])
RMul(x, y) == Rat(x.n * y.n, x.d * y.d)
RDiv(x, y) == Rat(x.n * y.d, x.d * y.n)
RGe(x, y) == x.n * y.d >= y.n * x.d
RGt(x, y) == x.n * y.d > y.n * x.d
RLe(x, y) == RGe(y, x)
RLt(x, y) == RGt(y, x)
RMax(x, y) == IF RGe(x, y) THEN x ELSE y
RMin(x, y) == IF RLe(x, y) THEN x ELSE y

RECURSIVE SumSeq(_)
SumSeq(s) == IF s = <<>> THEN 0 ELSE Head(s) + SumSeq(Tail(s))

\* ------------------------------------------------------------------- Trade
\* the fields of Trade the analyzers read; prices are integer pips
Trade(ticket, symbol, open_time, open_price, close_time, sl, tp, profit) ==
    [ticket |-> ticket, symbol |-> symbol,
     open_time |-> open_time, open_price |-> open_price,
     close_time |-> close_time, sl |-> sl, tp |-> tp, profit |-> profit]

\* Trade.duration, in seconds
duration(t) ==
    IF t.close_time # None THEN Some(Val(t.close_time) - t.open_time) ELSE None

is_closed(t) == t.close_time # None

result(t) ==
    IF ~is_closed(t) THEN "OPEN"
    ELSE IF t.profit > 0 THEN "WIN"
    ELSE IF t.profit < 0 THEN "LOSS"
    ELSE "BREAKEVEN"

\* InsertByCloseTime placing a trade before those of the same close time
RECURSIVE InsertByCloseTimeBeforeTies(_, _)
InsertByCloseTimeBeforeTies(s, t) ==
    IF s = <<>> THEN <<t>>
    ELSE IF Val(s[Len(s)].close_time) < Val(t.close_time) THEN Append(s, t)
    ELSE Append(InsertByCloseTimeBeforeTies(SubSeq(s, 1, Len(s) - 1), t), s[Len(s)])

\* sorted(..., key=lambda t: t.close_time): a stable sort of closed trades
RECURSIVE InsertByCloseTime(_, _)
InsertByCloseTime(s, t) ==
    IF s = <<>> THEN <<t>>
    ELSE IF Val(s[Len(s)].close_time) <= Val(t.close_time) THEN Append(s, t)
    ELSE Append(InsertByCloseTime(SubSeq(s, 1, Len(s) - 1), t), s[Len(s)])

RECURSIVE SortByCloseTime(_)
SortByCloseTime(s) ==
    IF s = <<>> THEN <<>>
    ELSE InsertByCloseTime(SortByCloseTime(SubSeq(s, 1, Len(s) - 1)), s[Len(s)])

ClosedTrades(ts) == SelectSeq(ts, is_closed)

\* -------------------------------------------------------- DrawdownAnalyzer
InitialBalances == {-1, 0, 10000}

RECURSIVE CurveFrom(_, _)
CurveFrom(ts, balance) ==
    IF ts = <<>> THEN <<>>
    ELSE LET current_balance == balance + Head(ts).profit
         IN <<[time |-> Val(Head(ts).close_time), balance |-> current_balance]>>
            \o CurveFrom(Tail(ts), current_balance)

\* _calculate_equity_curve without the start point before the first trade
_calculate_equity_curveNoStartPoint(ts, initial_balance) ==
    CurveFrom(ts, initial_balance)

\* DrawdownAnalyzer._calculate_equity_curve
_calculate_equity_curve(ts, initial_balance) ==
    IF ts = <<>> THEN <<>>
    ELSE <<[time |-> Val(ts[1].close_time) - Minute, balance |-> initial_balance]>>
         \o CurveFrom(ts, initial_balance)

DepthPct(peak_balance, trough_balance) ==
    IF peak_balance > 0
    THEN Rat((peak_balance - trough_balance) * 100, peak_balance)
    ELSE R(0)

DrawdownPeriod(start_date, end_date, peak_equity, trough_equity, held, recovery_date) ==
    [start_date |-> start_date, end_date |-> end_date,
     peak_equity |-> peak_equity, trough_equity |-> trough_equity,
     max_depth |-> peak_equity - trough_equity,
     max_depth_pct |-> DepthPct(peak_equity, trough_equity),
     duration |-> held, recovery_date |-> recovery_date]

\* DrawdownStep with the peak time left stale when a new peak is reached
DrawdownStepStalePeakTime(s, pt) ==
    IF pt.balance > s.peak_balance THEN
        LET recovered == s.in_drawdown /\ s.current_drawdown_start # None
            start == Val(s.current_drawdown_start)
        IN [s EXCEPT
              !.periods = IF recovered
                          THEN Append(@, DrawdownPeriod(start, Some(pt.time),
                                   s.peak_balance, s.trough_balance,
                                   pt.time - start, Some(pt.time)))
                          ELSE @,
              !.in_drawdown = IF recovered THEN FALSE ELSE @,
              !.peak_balance = pt.balance,
              !.trough_balance = pt.balance]
    ELSE IF pt.balance < s.peak_balance THEN
        IF ~s.in_drawdown
        THEN [s EXCEPT !.in_drawdown = TRUE,
                       !.current_drawdown_start = Some(s.peak_time),
                       !.trough_balance = pt.balance]
        ELSE IF pt.balance < s.trough_balance
             THEN [s EXCEPT !.trough_balance = pt.balance]
             ELSE s
    ELSE s

\* DrawdownStep with the trough frozen at the first dip of a period
DrawdownStepFirstDipTrough(s, pt) ==
    IF pt.balance > s.peak_balance THEN
        LET recovered == s.in_drawdown /\ s.current_drawdown_start # None
            start == Val(s.current_drawdown_start)
        IN [s EXCEPT
              !.periods = IF recovered
                          THEN Append(@, DrawdownPeriod(start, Some(pt.time),
                                   s.peak_balance, s.trough_balance,
                                   pt.time - start, Some(pt.time)))
                          ELSE @,
              !.in_drawdown = IF recovered THEN FALSE ELSE @,
              !.peak_balance = pt.balance,
              !.peak_time = pt.time,
              !.trough_balance = pt.balance]
    ELSE IF pt.balance < s.peak_balance THEN
        IF ~s.in_drawdown
        THEN [s EXCEPT !.in_drawdown = TRUE,
                       !.current_drawdown_start = Some(s.peak_time),
                       !.trough_balance = pt.balance]
        ELSE s
    ELSE s

\* one iteration of the loop of _identify_drawdown_periods over a curve point
DrawdownStep(s, pt) ==
    IF pt.balance > s.peak_balance THEN
        LET recovered == s.in_drawdown /\ s.current_drawdown_start # None
            start == Val(s.current_drawdown_start)
        IN [s EXCEPT
              !.periods = IF recovered
                          THEN Append(@, DrawdownPeriod(start, Some(pt.time),
                                   s.peak_balance, s.trough_balance,
                                   pt.time - start, Some(pt.time)))
                          ELSE @,
              !.in_drawdown = IF recovered THEN FALSE ELSE @,
              !.peak_balance = pt.balance,
              !.peak_time = pt.time,
              !.trough_balance = pt.balance]
    ELSE IF pt.balance < s.peak_balance THEN
        IF ~s.in_drawdown
        THEN [s EXCEPT !.in_drawdown = TRUE,
                       !.current_drawdown_start = Some(s.peak_time),
                       !.trough_balance = pt.balance]
        ELSE IF pt.balance < s.trough_balance
             THEN [s EXCEPT !.trough_balance = pt.balance]
             ELSE s
    ELSE s

RECURSIVE DrawdownWalk(_, _)
DrawdownWalk(s, curve) ==
    IF curve = <<>> THEN s
    ELSE DrawdownWalk(DrawdownStep(s, Head(curve)), Tail(curve))

\* DrawdownFinish that emits no period for a drawdown still open
DrawdownFinishDropped(s, curve) == s.periods

\* DrawdownFinish with the last curve point's time as the end of the period
DrawdownFinishEnded(s, curve) ==
    IF s.in_drawdown
    THEN Append(s.periods,
                DrawdownPeriod(Val(s.current_drawdown_start), Some(curve[Len(curve)].time),
                               s.peak_balance, s.trough_balance,
                               curve[Len(curve)].time - Val(s.current_drawdown_start),
                               None))
    ELSE s.periods

\* the trailing "if in_drawdown" of _identify_drawdown_periods
DrawdownFinish(s, curve) ==
    IF s.in_drawdown
    THEN Append(s.periods,
                DrawdownPeriod(Val(s.current_drawdown_start), None,
                               s.peak_balance, s.trough_balance,
                               curve[Len(curve)].time - Val(s.current_drawdown_start),
                               None))
    ELSE s.periods

\* DrawdownAnalyzer._identify_drawdown_periods
_identify_drawdown_periods(curve, initial_balance) ==
    IF curve = <<>> THEN <<>>
    ELSE DrawdownFinish(
            DrawdownWalk([periods |-> <<>>,
                          peak_balance |-> initial_balance,
                          peak_time |-> curve[1].time,
                          current_drawdown_start |-> None,
                          trough_balance |-> initial_balance,
                          in_drawdown |-> FALSE], curve),
            curve)

\* max(periods, key=...) returns the first maximal element
RECURSIVE FirstMaxBy(_, _, _)
FirstMaxBy(s, f, best) ==
    IF s = <<>> THEN best
    ELSE FirstMaxBy(Tail(s), f, IF s[1][f] > best[f] THEN s[1] ELSE best)

RECURSIVE SumField(_, _)
SumField(s, f) == IF s = <<>> THEN 0 ELSE s[1][f] + SumField(Tail(s), f)

RECURSIVE RSumField(_, _)
RSumField(s, f) == IF s = <<>> THEN R(0) ELSE RAdd(s[1][f], RSumField(Tail(s), f))

RECURSIVE MaxBalance(_)
MaxBalance(curve) ==
    IF Len(curve) = 1 THEN curve[1].balance
    ELSE Max2(curve[1].balance, MaxBalance(Tail(curve)))

Recovered(p) == p.recovery_date # None

\* DrawdownAnalyzer.get_analysis
get_analysis(self) ==
    IF self.trades = <<>> THEN
        [current_drawdown |-> 0, current_drawdown_pct |-> R(0),
         max_drawdown |-> 0, max_drawdown_pct |-> R(0),
         average_drawdown |-> R(0), average_drawdown_pct |-> R(0),
         drawdown_periods |-> <<>>,
         longest_drawdown_duration |-> 0, average_recovery_time |-> R(0),
         is_in_drawdown |-> FALSE]
    ELSE
        LET periods == self._drawdown_periods
            curve == self._equity_curve
            max_dd_period == FirstMaxBy(Tail(periods), "max_depth", periods[1])
            recovered_periods == SelectSeq(periods, Recovered)
            current_balance == curve[Len(curve)].balance
            peak_balance == MaxBalance(curve)
            current_dd == peak_balance - current_balance
        IN [current_drawdown |-> current_dd,
            current_drawdown_pct |-> IF peak_balance > 0
                                     THEN Rat(current_dd * 100, peak_balance)
                                     ELSE R(0),
            max_drawdown |-> IF periods # <<>> THEN max_dd_period.max_depth ELSE 0,
            max_drawdown_pct |-> IF periods # <<>> THEN max_dd_period.max_depth_pct ELSE R(0),
            average_drawdown |-> IF periods # <<>>
                                 THEN Rat(SumField(periods, "max_depth"), Len(periods))
                                 ELSE R(0),
            average_drawdown_pct |-> IF periods # <<>>
                                     THEN RDiv(RSumField(periods, "max_depth_pct"), R(Len(periods)))
                                     ELSE R(0),
            drawdown_periods |-> periods,
            longest_drawdown_duration |->
                IF periods # <<>>
                THEN FirstMaxBy(Tail(periods), "duration", periods[1]).duration
                ELSE 0,
            average_recovery_time |->
                IF recovered_periods # <<>>
                THEN Rat(SumField(recovered_periods, "duration"), Len(recovered_periods))
                ELSE R(0),
            is_in_drawdown |-> current_dd > 0]

\* DrawdownAnalyzer.__init__
DrawdownAnalyzer(ts, initial_balance) ==
    LET sorted == SortByCloseTime(ClosedTrades(ts))
        curve == _calculate_equity_curve(sorted, initial_balance)
    IN [trades |-> sorted,
        initial_balance |-> initial_balance,
        _equity_curve |-> curve,
        _drawdown_periods |-> _identify_drawdown_periods(curve, initial_balance)]


\* -------------------------------------------------------------- BasicStats
IsOpen(t) == ~is_closed(t)
IsWinning(t) == t.profit > 0
\* IsLosing with breakeven trades taken as losses
IsLosingOrBreakeven(t) == t.profit <= 0
IsLosing(t) == t.profit < 0
IsBreakeven(t) == t.profit = 0

RECURSIVE SumProfit(_)
SumProfit(ts) == IF ts = <<>> THEN 0 ELSE Head(ts).profit + SumProfit(Tail(ts))

RECURSIVE MaxProfitOf(_, _)
MaxProfitOf(ts, default) ==
    IF ts = <<>> THEN default
    ELSE IF Len(ts) = 1 THEN ts[1].profit
    ELSE Max2(ts[1].profit, MaxProfitOf(Tail(ts), default))

RECURSIVE MinProfitOf(_, _)
MinProfitOf(ts, default) ==
    IF ts = <<>> THEN default
    ELSE IF Len(ts) = 1 THEN ts[1].profit
    ELSE Min2(ts[1].profit, MinProfitOf(Tail(ts), default))

\* the loop of BasicStats._calculate_drawdown
RECURSIVE StatsDrawdownWalk(_, _)
StatsDrawdownWalk(s, ts) ==
    IF ts = <<>> THEN s
    ELSE LET running_balance == s.running_balance + Head(ts).profit
             peak == IF running_balance > s.peak THEN running_balance ELSE s.peak
             drawdown == peak - running_balance
         IN StatsDrawdownWalk(
               [running_balance |-> running_balance, peak |-> peak,
                max_drawdown_amount |-> IF drawdown > s.max_drawdown_amount
                                        THEN drawdown ELSE s.max_drawdown_amount],
               Tail(ts))

\* _calculate_drawdown walking the closed trades in list order
_calculate_drawdownUnsorted(closed) ==
    IF closed = <<>> THEN <<R(0), 0>>
    ELSE LET s == StatsDrawdownWalk(
                     [running_balance |-> 0, peak |-> 0, max_drawdown_amount |-> 0],
                     closed)
         IN <<IF s.peak > 0 THEN Rat(s.max_drawdown_amount * 100, s.peak) ELSE R(0),
              s.max_drawdown_amount>>

\* BasicStats._calculate_drawdown: <<percentage, amount>>
_calculate_drawdown(closed) ==
    IF closed = <<>> THEN <<R(0), 0>>
    ELSE LET s == StatsDrawdownWalk(
                     [running_balance |-> 0, peak |-> 0, max_drawdown_amount |-> 0],
                     SortByCloseTime(closed))
         IN <<IF s.peak > 0 THEN Rat(s.max_drawdown_amount * 100, s.peak) ELSE R(0),
              s.max_drawdown_amount>>

\* ConsecutiveStep without the reset on a breakeven trade
ConsecutiveStepKeepOnBreakeven(s, t) ==
    IF t.profit > 0
    THEN [s EXCEPT !.current_wins = @ + 1, !.current_losses = 0,
                   !.max_wins = Max2(@, s.current_wins + 1)]
    ELSE IF t.profit < 0
    THEN [s EXCEPT !.current_losses = @ + 1, !.current_wins = 0,
                   !.max_losses = Max2(@, s.current_losses + 1)]
    ELSE s

\* one iteration of the loop of BasicStats._calculate_consecutive
ConsecutiveStep(s, t) ==
    IF t.profit > 0
    THEN [s EXCEPT !.current_wins = @ + 1, !.current_losses = 0,
                   !.max_wins = Max2(@, s.current_wins + 1)]
    ELSE IF t.profit < 0
    THEN [s EXCEPT !.current_losses = @ + 1, !.current_wins = 0,
                   !.max_losses = Max2(@, s.current_losses + 1)]
    ELSE [s EXCEPT !.current_wins = 0, !.current_losses = 0]

RECURSIVE ConsecutiveWalk(_, _)
ConsecutiveWalk(s, ts) ==
    IF ts = <<>> THEN s
    ELSE ConsecutiveWalk(ConsecutiveStep(s, Head(ts)), Tail(ts))

\* BasicStats._calculate_consecutive: <<max_wins, max_losses>>
_calculate_consecutive(closed) ==
    IF closed = <<>> THEN <<0, 0>>
    ELSE LET s == ConsecutiveWalk(
                     [current_wins |-> 0, current_losses |-> 0,
                      max_wins |-> 0, max_losses |-> 0],
                     SortByCloseTime(closed))
         IN <<s.max_wins, s.max_losses>>

\* BasicStats._calculate_profit_per_day
_calculate_profit_per_day(closed) ==
    IF closed = <<>> THEN R(0)
    ELSE LET trading_days == {Val(closed[i].close_time) \div Day : i \in 1 .. Len(closed)}
         IN Rat(SumProfit(closed), Cardinality(trading_days))

\* _calculate_profit_by_symbol keeping each symbol's last profit only
_calculate_profit_by_symbolLastTrade(closed) ==
    LET symbols == {closed[i].symbol : i \in 1 .. Len(closed)}
    IN [sym \in symbols |->
           LET OfSymbol(t) == t.symbol = sym
               own == SelectSeq(closed, OfSymbol)
           IN own[Len(own)].profit]

\* BasicStats._calculate_profit_by_symbol
_calculate_profit_by_symbol(closed) ==
    LET symbols == {closed[i].symbol : i \in 1 .. Len(closed)}
    IN [sym \in symbols |->
           LET OfSymbol(t) == t.symbol = sym IN SumProfit(SelectSeq(closed, OfSymbol))]

RECURSIVE SumDuration(_)
SumDuration(ts) ==
    IF ts = <<>> THEN 0 ELSE Val(duration(Head(ts))) + SumDuration(Tail(ts))

HasDuration(t) == duration(t) # None

\* statistics.mean(durations) if durations else 0.0
MeanDuration(ts) ==
    LET timed == SelectSeq(ts, HasDuration)
    IN IF timed = <<>> THEN R(0) ELSE Rat(SumDuration(timed), Len(timed))

\* BasicStats._calculate_durations: <<all, winning, losing>>
_calculate_durations(closed, winning, losing) ==
    IF closed = <<>> THEN <<R(0), R(0), R(0)>>
    ELSE <<MeanDuration(closed), MeanDuration(winning), MeanDuration(losing)>>

\* ProfitFactor with 0 in place of the no-losses sentinel
ProfitFactorZeroDefault(total_gross_profit, total_gross_loss) ==
    IF total_gross_loss # 0 THEN Rat(total_gross_profit, total_gross_loss) ELSE R(0)

\* profit_factor of BasicStats._calculate_stats
ProfitFactor(total_gross_profit, total_gross_loss) ==
    IF total_gross_loss # 0 THEN Rat(total_gross_profit, total_gross_loss) ELSE Inf

\* BasicStats.__init__ and _calculate_stats: the cached BasicStatsResult.
\* Decimal(str(win_rate)) is taken as the exact quotient.
BasicStats(ts) ==
    LET closed == SelectSeq(ts, is_closed)
        open == SelectSeq(ts, IsOpen)
        winning == SelectSeq(closed, IsWinning)
        losing == SelectSeq(closed, IsLosing)
        breakeven == SelectSeq(closed, IsBreakeven)
        closed_trades == Len(closed)
        win_trades == Len(winning)
        loss_trades == Len(losing)
        win_rate == IF closed_trades > 0 THEN Rat(win_trades, closed_trades) ELSE R(0)
        total_gross_profit == SumProfit(winning)
        total_gross_loss == Abs(SumProfit(losing))
        total_net_profit == SumProfit(closed)
        avg_win == IF win_trades > 0 THEN Rat(total_gross_profit, win_trades) ELSE R(0)
        avg_loss == IF loss_trades > 0 THEN Rat(total_gross_loss, loss_trades) ELSE R(0)
        drawdown == _calculate_drawdown(closed)
        consecutive == _calculate_consecutive(closed)
        durations == _calculate_durations(closed, winning, losing)
    IN [total_trades |-> Len(ts),
        closed_trades |-> closed_trades,
        win_trades |-> win_trades,
        loss_trades |-> loss_trades,
        breakeven_trades |-> Len(breakeven),
        open_trades |-> Len(open),
        win_rate |-> win_rate,
        profit_factor |-> ProfitFactor(total_gross_profit, total_gross_loss),
        total_net_profit |-> total_net_profit,
        total_gross_profit |-> total_gross_profit,
        total_gross_loss |-> total_gross_loss,
        avg_win |-> avg_win,
        avg_loss |-> avg_loss,
        avg_trade |-> IF closed_trades > 0 THEN Rat(total_net_profit, closed_trades) ELSE R(0),
        expectancy |-> RSub(RMul(win_rate, avg_win), RMul(RSub(R(1), win_rate), avg_loss)),
        max_drawdown |-> drawdown[1],
        max_drawdown_amount |-> drawdown[2],
        max_consecutive_wins |-> consecutive[1],
        max_consecutive_losses |-> consecutive[2],
        largest_win |-> MaxProfitOf(winning, 0),
        largest_loss |-> MinProfitOf(losing, 0),
        profit_per_day |-> _calculate_profit_per_day(closed),
        profit_per_trade |-> _calculate_profit_by_symbol(closed),
        avg_trade_duration |-> durations[1],
        avg_win_duration |-> durations[2],
        avg_loss_duration |-> durations[3]]

\* ------------------------------------------------------- PerformanceScorer
\* round(x, 2): nearest hundredth, ties to even; float('inf') stays inf
Round2(x) ==
    IF x.d = 0 THEN x
    ELSE LET num == x.n * 100
             q == num \div x.d
             twice == 2 * (num - q * x.d)
         IN Rat(IF twice > x.d \/ (twice = x.d /\ q % 2 = 1) THEN q + 1 ELSE q, 100)

\* PerformanceScorer._calculate_win_rate_score
_calculate_win_rate_score(stats_result) ==
    LET win_rate == stats_result.win_rate
    IN IF RGe(win_rate, Rat(6, 10))
       THEN RAdd(R(90), RMul(RSub(win_rate, Rat(6, 10)), R(100)))
       ELSE IF RGe(win_rate, Rat(5, 10))
       THEN RAdd(R(70), RMul(RDiv(RSub(win_rate, Rat(5, 10)), Rat(1, 10)), R(20)))
       ELSE IF RGe(win_rate, Rat(4, 10))
       THEN RAdd(R(50), RMul(RDiv(RSub(win_rate, Rat(4, 10)), Rat(1, 10)), R(20)))
       ELSE RAdd(R(30), RMul(RDiv(win_rate, Rat(4, 10)), R(20)))

\* PerformanceScorer._calculate_risk_score
_calculate_risk_score(stats_result) ==
    LET expectancy == stats_result.expectancy
        avg_win == stats_result.avg_win
        avg_loss == stats_result.avg_loss
        risk_reward_ratio == IF avg_loss.n # 0 THEN RDiv(avg_win, avg_loss) ELSE Inf
        normalized_expectancy == RMin(RDiv(expectancy, R(100)), R(1))
        expectancy_score ==
            IF RGt(expectancy, R(0))
            THEN RAdd(R(50), RMin(RMul(normalized_expectancy, R(50)), R(50)))
            ELSE IF RLt(expectancy, R(0))
            THEN RMax(R(10), RAdd(R(50), RMul(expectancy, Rat(1, 10))))
            ELSE R(50)
        risk_reward_bonus ==
            IF RGe(risk_reward_ratio, R(2)) THEN R(20)
            ELSE IF RGe(risk_reward_ratio, Rat(3, 2)) THEN R(10)
            ELSE IF RGe(risk_reward_ratio, R(1)) THEN R(5)
            ELSE R(-10)
    IN RMax(R(0), RMin(R(100), RAdd(expectancy_score, risk_reward_bonus)))

\* PerformanceScorer._calculate_profit_factor_score
_calculate_profit_factor_score(stats_result) ==
    LET profit_factor == stats_result.profit_factor
    IN IF RGe(profit_factor, R(2))
       THEN RAdd(R(90), RMul(RDiv(RSub(profit_factor, R(2)), R(2)), R(10)))
       ELSE IF RGe(profit_factor, Rat(15, 10))
       THEN RAdd(R(70), RMul(RDiv(RSub(profit_factor, Rat(15, 10)), Rat(5, 10)), R(20)))
       ELSE IF RGe(profit_factor, Rat(12, 10))
       THEN RAdd(R(50), RMul(RDiv(RSub(profit_factor, Rat(12, 10)), Rat(3, 10)), R(20)))
       ELSE RMax(R(10), RMul(profit_factor, R(30)))

\* _get_letter_grade with boundaries that exclude the boundary score
LetterGradeExclusive(score) ==
    IF RGt(score, R(90)) THEN "A"
    ELSE IF RGt(score, R(80)) THEN "B"
    ELSE IF RGt(score, R(70)) THEN "C"
    ELSE IF RGt(score, R(60)) THEN "D"
    ELSE "F"

\* PerformanceScorer._get_letter_grade
_get_letter_grade(score) ==
    IF RGe(score, R(90)) THEN "A"
    ELSE IF RGe(score, R(80)) THEN "B"
    ELSE IF RGe(score, R(70)) THEN "C"
    ELSE IF RGe(score, R(60)) THEN "D"
    ELSE "F"

\* PerformanceScorer._generate_insights: the three de-duplicated message sets
\* (messages without their interpolated numbers)
_generate_insights(st) ==
    LET wr == st.win_rate
        pf == st.profit_factor
        both == RGt(st.avg_win, R(0)) /\ RGt(st.avg_loss, R(0))
        risk_reward == RDiv(st.avg_win, st.avg_loss)
        strengths ==
            (IF RGe(wr, Rat(6, 10)) THEN {"Excellent win rate (>60%)"}
             ELSE IF RGe(wr, Rat(5, 10)) THEN {"Good win rate (>50%)"} ELSE {})
            \cup (IF RGe(pf, R(2)) THEN {"Strong profit factor (>2.0)"}
                  ELSE IF RGe(pf, Rat(15, 10)) THEN {"Decent profit factor"} ELSE {})
            \cup (IF RGt(st.expectancy, R(0))
                  THEN {"Positive expectancy (profitable over time)"} ELSE {})
            \cup (IF both /\ RGe(risk_reward, R(2)) THEN {"Excellent risk-reward ratio"}
                  ELSE IF both /\ RGe(risk_reward, Rat(15, 10)) THEN {"Good risk-reward ratio"}
                  ELSE {})
            \cup (IF RLe(st.max_drawdown, R(10)) THEN {"Well-controlled drawdown"} ELSE {})
        weaknesses ==
            (IF RGe(wr, Rat(5, 10)) THEN {}
             ELSE IF RGe(wr, Rat(4, 10))
             THEN {"Win rate could be improved (try to exceed 50%)"}
             ELSE {"Low win rate (<40%)"})
            \cup (IF RGe(pf, Rat(15, 10)) THEN {} ELSE {"Low profit factor (<1.5)"})
            \cup (IF RGt(st.expectancy, R(0)) THEN {}
                  ELSE {"Negative expectancy (unprofitable over time)"})
            \cup (IF both /\ ~RGe(risk_reward, Rat(15, 10))
                  THEN {"Room for improvement in risk-reward ratio"} ELSE {})
            \cup (IF RLe(st.max_drawdown, R(10)) THEN {}
                  ELSE IF RLe(st.max_drawdown, R(20))
                  THEN {"Moderate drawdown - monitor closely"}
                  ELSE {"High drawdown"})
        recommendations ==
            (IF RGe(wr, Rat(5, 10)) THEN {}
             ELSE IF RGe(wr, Rat(4, 10))
             THEN {"Focus on entry criteria to improve win rate"}
             ELSE {"Analyze entry/exit strategies to improve win rate"})
            \cup (IF RGe(pf, Rat(15, 10)) THEN {}
                  ELSE {"Improve profit factor by increasing winners or reducing losers"})
            \cup (IF RGt(st.expectancy, R(0)) THEN {}
                  ELSE {"Work on improving expectancy through risk management"})
            \cup (IF both /\ ~RGe(risk_reward, Rat(15, 10))
                  THEN {"Consider adjusting stop-losses and take-profit levels"} ELSE {})
            \cup (IF RLe(st.max_drawdown, R(20)) THEN {}
                  ELSE {"Implement stricter risk controls to reduce drawdown"})
    IN <<recommendations, strengths, weaknesses>>

\* PerformanceScorer.calculate_overall_score
calculate_overall_score(self) ==
    LET win_rate_score == _calculate_win_rate_score(self.stats_result)
        risk_score == _calculate_risk_score(self.stats_result)
        profit_factor_score == _calculate_profit_factor_score(self.stats_result)
        overall_score == RAdd(RAdd(RMul(win_rate_score, Rat(4, 10)),
                                   RMul(risk_score, Rat(3, 10))),
                              RMul(profit_factor_score, Rat(3, 10)))
        insights == _generate_insights(self.stats_result)
    IN [overall_score |-> Round2(overall_score),
        letter_grade |-> _get_letter_grade(overall_score),
        win_rate_score |-> Round2(win_rate_score),
        risk_score |-> Round2(risk_score),
        profit_factor_score |-> Round2(profit_factor_score),
        recommendations |-> insights[1],
        strengths |-> insights[2],
        weaknesses |-> insights[3],
        score_breakdown |-> [win_rate |-> win_rate_score,
                             risk_management |-> risk_score,
                             profit_factor |-> profit_factor_score]]

\* max/min of abs(t.profit) over the portfolio's trades that satisfy `pick`
RECURSIVE ExtremeAbsProfit(_, _, _)
ExtremeAbsProfit(ts, largest, default) ==
    IF ts = <<>> THEN default
    ELSE IF Len(ts) = 1 THEN Abs(ts[1].profit)
    ELSE LET rest == ExtremeAbsProfit(Tail(ts), largest, default)
         IN IF largest THEN Max2(Abs(ts[1].profit), rest) ELSE Min2(Abs(ts[1].profit), rest)

\* str(n) of an int: its decimal digits as characters, most significant first
RECURSIVE DigitsOf(_)
DigitsOf(n) ==
    LET char == <<"0", "1", "2", "3", "4", "5", "6", "7", "8", "9">>[(n % 10) + 1]
    IN IF n < 10 THEN <<char>> ELSE Append(DigitsOf(n \div 10), char)

str(n) == IF n < 0 THEN <<"-">> \o DigitsOf(-n) ELSE DigitsOf(n)

\* PerformanceScorer.grade_individual_trade
grade_individual_trade(self, trade) ==
    LET profit == trade.profit
        max_possible_profit == ExtremeAbsProfit(SelectSeq(self.trades, IsWinning), TRUE, 100)
        max_possible_loss == ExtremeAbsProfit(SelectSeq(self.trades, IsLosing), FALSE, 100)
        profit_score ==
            IF profit > 0
            THEN RMin(R(100), RAdd(RMul(Rat(profit, max_possible_profit), R(70)), R(30)))
            ELSE IF profit < 0
            THEN RMax(R(0), RSub(R(50), RMul(Rat(Abs(profit), max_possible_loss), R(50))))
            ELSE R(50)
        held == duration(trade)
        \* duration_hours = held / 3600, compared in seconds
        duration_score ==
            IF held = None \/ Val(held) = 0 THEN 0
            ELSE IF profit > 0
            THEN IF Hour <= Val(held) /\ Val(held) <= 8 * Hour THEN 10
                 ELSE IF \/ (Hour <= 2 * Val(held) /\ Val(held) < Hour)
                         \/ (8 * Hour < Val(held) /\ Val(held) <= 24 * Hour) THEN 5
                 ELSE 0
            ELSE IF Val(held) <= 2 * Hour THEN 5
                 ELSE IF Val(held) <= 8 * Hour THEN 2
                 ELSE 0
        \* getattr(trade, "sl", None) or getattr(trade, "stop_loss", None)
        stop_loss == IF trade.sl # None /\ Val(trade.sl) # 0 THEN trade.sl ELSE None
        take_profit == IF trade.tp # None /\ Val(trade.tp) # 0 THEN trade.tp ELSE None
        sl_diff == Abs(trade.open_price - Val(stop_loss))
        tp_diff == Abs(Val(take_profit) - trade.open_price)
        risk_reward_score ==
            IF stop_loss # None /\ take_profit # None /\ sl_diff > 0
            THEN IF tp_diff >= 2 * sl_diff THEN 15
                 ELSE IF 2 * tp_diff >= 3 * sl_diff THEN 10
                 ELSE IF tp_diff >= sl_diff THEN 5
                 ELSE 0
            ELSE 0
        total_score == RMin(R(100), RAdd(profit_score, R(duration_score + risk_reward_score)))
    IN [trade_id |-> str(trade.ticket),
        symbol |-> trade.symbol,
        grade |-> _get_letter_grade(total_score),
        score |-> Round2(total_score),
        breakdown |-> [profitability |-> profit_score,
                       duration |-> duration_score,
                       risk_reward |-> risk_reward_score],
        feedback |-> <<IF profit > 0 THEN "Profitable trade"
                       ELSE IF profit < 0 THEN "Losing trade" ELSE "Breakeven trade">>
                     \o (IF risk_reward_score > 0 THEN <<"Good risk-reward setup">> ELSE <<>>)]

\* variant: the grades in reverse portfolio order
grade_all_tradesReversed(self) ==
    [i \in 1 .. Len(self.trades) |->
        grade_individual_trade(self, self.trades[Len(self.trades) + 1 - i])]

\* PerformanceScorer.grade_all_trades
grade_all_trades(self) ==
    [i \in 1 .. Len(self.trades) |-> grade_individual_trade(self, self.trades[i])]

\* the methods the class PerformanceScorer defines
PerformanceScorerMethods ==
    {"__init__", "calculate_overall_score", "_calculate_win_rate_score",
     "_calculate_risk_score", "_calculate_profit_factor_score", "_get_letter_grade",
     "_generate_insights", "grade_individual_trade", "grade_all_trades",
     "generate_performance_report"}

\* PerformanceScorer.__init__
PerformanceScorer(ts) ==
    [trades |-> ts, stats_result |-> BasicStats(ts)]

\* ------------------------------------------------------------ TimeAnalysis
\* datetime.time(h, m) as seconds since midnight
TimeOfDay(h, m) == h * Hour + m * Minute

\* SESSIONS with an Asian window that runs into the London one
SESSIONSAsianUntilNine ==
    <<[name |-> "Asian", start |-> TimeOfDay(0, 0), end |-> TimeOfDay(9, 0)],
      [name |-> "London", start |-> TimeOfDay(8, 0), end |-> TimeOfDay(16, 0)],
      [name |-> "New_York", start |-> TimeOfDay(13, 0), end |-> TimeOfDay(21, 0)],
      [name |-> "London_NY_Overlap", start |-> TimeOfDay(13, 0), end |-> TimeOfDay(16, 0)]>>

\* TimeAnalysis.SESSIONS, in the dict's order
SESSIONS ==
    <<[name |-> "Asian", start |-> TimeOfDay(0, 0), end |-> TimeOfDay(8, 0)],
      [name |-> "London", start |-> TimeOfDay(8, 0), end |-> TimeOfDay(16, 0)],
      [name |-> "New_York", start |-> TimeOfDay(13, 0), end |-> TimeOfDay(21, 0)],
      [name |-> "London_NY_Overlap", start |-> TimeOfDay(13, 0), end |-> TimeOfDay(16, 0)]>>

\* TimeAnalysis.PERIODS, in the dict's order
PERIODS ==
    <<[name |-> "pre_market", start |-> TimeOfDay(0, 0), end |-> TimeOfDay(8, 0)],
      [name |-> "market_open", start |-> TimeOfDay(8, 0), end |-> TimeOfDay(12, 0)],
      [name |-> "midday", start |-> TimeOfDay(12, 0), end |-> TimeOfDay(16, 0)],
      [name |-> "afternoon", start |-> TimeOfDay(16, 0), end |-> TimeOfDay(20, 0)],
      [name |-> "evening", start |-> TimeOfDay(20, 0), end |-> TimeOfDay(23, 59)]>>

\* datetime.time(), .hour, .weekday() and .month of a datetime; day 0 is
\* Monday 1 January of a leap year
time_of(dt) == dt % Day
hour_of(dt) == (dt % Day) \div Hour
weekday_of(dt) == (dt \div Day) % 7
MonthEnds == <<31, 60, 91, 121, 152, 182, 213, 244, 274, 305, 335, 366>>
month_of(dt) ==
    LET day_of_year == (dt \div Day) % 366
    IN CHOOSE m \in 1 .. 12 :
          /\ day_of_year < MonthEnds[m]
          /\ (m = 1 \/ day_of_year >= MonthEnds[m - 1])

\* _time_in_range with the window's start excluded
TimeInRangeOpenStart(t, start, end) ==
    IF start <= end THEN start < t /\ t < end
    ELSE t > start \/ t < end

\* TimeAnalysis._time_in_range
_time_in_range(t, start, end) ==
    IF start <= end THEN start <= t /\ t < end
    ELSE t >= start \/ t < end

\* TimeAnalysis._get_sessions: names of all matching sessions, in SESSIONS order
_get_sessions(close_time) ==
    LET t == time_of(close_time)
        Matches(session) == _time_in_range(t, session.start, session.end)
        matching == SelectSeq(SESSIONS, Matches)
    IN [i \in 1 .. Len(matching) |-> matching[i].name]

\* TimeAnalysis._get_period: the first matching period, or None
_get_period(close_time) ==
    LET close_hour == time_of(close_time)
        Matches(period) == period.start <= close_hour /\ close_hour < period.end
        matching == SelectSeq(PERIODS, Matches)
    IN IF matching = <<>> THEN None ELSE Some(matching[1].name)

\* a defaultdict of buckets is a sequence of entries in insertion order
HasKey(dict, key) == \E i \in 1 .. Len(dict) : dict[i].key = key
Lookup(dict, key) == dict[CHOOSE i \in 1 .. Len(dict) : dict[i].key = key]

NewBucket(key) == [key |-> key, trades |-> <<>>, pnl |-> 0, wins |-> 0, losses |-> 0]

\* "stats[key]['trades'].append(trade); pnl += profit; wins / losses += 1"
TrackInBucket(b, trade) ==
    [b EXCEPT !.trades = Append(@, trade),
              !.pnl = @ + trade.profit,
              !.wins = IF trade.profit > 0 THEN @ + 1 ELSE @,
              !.losses = IF trade.profit < 0 THEN @ + 1 ELSE @]

Track(dict, key, trade) ==
    IF HasKey(dict, key)
    THEN [i \in 1 .. Len(dict) |->
             IF dict[i].key = key THEN TrackInBucket(dict[i], trade) ELSE dict[i]]
    ELSE Append(dict, TrackInBucket(NewBucket(key), trade))

RECURSIVE TrackAll(_, _, _)
TrackAll(dict, keys, trade) ==
    IF keys = <<>> THEN dict
    ELSE TrackAll(Track(dict, Head(keys), trade), Tail(keys), trade)

\* TimeAnalysis._analyze_trade
_analyze_trade(s, trade) ==
    IF trade.close_time = None THEN s
    ELSE LET close_time == Val(trade.close_time)
             period == _get_period(close_time)
         IN [s EXCEPT
               !._hour_stats = Track(@, hour_of(close_time), trade),
               !._weekday_stats = Track(@, weekday_of(close_time), trade),
               !._month_stats = Track(@, month_of(close_time), trade),
               !._session_stats = TrackAll(@, _get_sessions(close_time), trade),
               !._period_stats = IF period # None THEN Track(@, Val(period), trade) ELSE @]

RECURSIVE AnalyzeTrades(_, _)
AnalyzeTrades(s, ts) ==
    IF ts = <<>> THEN s ELSE AnalyzeTrades(_analyze_trade(s, Head(ts)), Tail(ts))

\* the body of each loop of TimeAnalysis._calculate_derived_stats
\* (the hour buckets' "avg_trade" alias of avg_pnl is left out)
Derived(b) ==
    LET total_trades == Len(b.trades)
    IN [key |-> b.key, trades |-> b.trades, pnl |-> b.pnl,
        wins |-> b.wins, losses |-> b.losses,
        total_trades |-> total_trades,
        win_rate |-> Rat(b.wins, total_trades),
        loss_rate |-> Rat(b.losses, total_trades),
        avg_pnl |-> Rat(b.pnl, total_trades)]

DeriveAll(dict) == [i \in 1 .. Len(dict) |-> Derived(dict[i])]

\* TimeAnalysis._calculate_derived_stats
_calculate_derived_stats(s) ==
    [s EXCEPT !._hour_stats = DeriveAll(@),
              !._weekday_stats = DeriveAll(@),
              !._month_stats = DeriveAll(@),
              !._session_stats = DeriveAll(@),
              !._period_stats = DeriveAll(@)]

\* the tuple key (win_rate, avg_pnl)
KeyLe(a, b) ==
    RLt(a.win_rate, b.win_rate) \/ (a.win_rate = b.win_rate /\ RLe(a.avg_pnl, b.avg_pnl))
KeyLt(a, b) == ~KeyLe(b, a)

\* list.sort(key=(win_rate, avg_pnl), reverse=True): stable, descending
RECURSIVE SortDescending(_)
RECURSIVE InsertDescending(_, _)
InsertDescending(sorted, x) ==
    IF sorted = <<>> THEN <<x>>
    ELSE IF KeyLe(x, sorted[Len(sorted)]) THEN Append(sorted, x)
    ELSE Append(InsertDescending(SubSeq(sorted, 1, Len(sorted) - 1), x), sorted[Len(sorted)])
SortDescending(xs) ==
    IF xs = <<>> THEN <<>>
    ELSE InsertDescending(SortDescending(SubSeq(xs, 1, Len(xs) - 1)), xs[Len(xs)])

\* sorted(..., key=(win_rate, avg_pnl)): stable, ascending
RECURSIVE SortAscending(_)
RECURSIVE InsertAscending(_, _)
InsertAscending(sorted, x) ==
    IF sorted = <<>> THEN <<x>>
    ELSE IF KeyLe(sorted[Len(sorted)], x) THEN Append(sorted, x)
    ELSE Append(InsertAscending(SubSeq(sorted, 1, Len(sorted) - 1), x), sorted[Len(sorted)])
SortAscending(xs) ==
    IF xs = <<>> THEN <<>>
    ELSE InsertAscending(SortAscending(SubSeq(xs, 1, Len(xs) - 1)), xs[Len(xs)])

\* max(perf, key=...) and min(perf, key=...): the first extreme element
RECURSIVE FirstMaxKey(_, _)
FirstMaxKey(xs, best) ==
    IF xs = <<>> THEN best
    ELSE FirstMaxKey(Tail(xs), IF KeyLt(best, xs[1]) THEN xs[1] ELSE best)
RECURSIVE FirstMinKey(_, _)
FirstMinKey(xs, best) ==
    IF xs = <<>> THEN best
    ELSE FirstMinKey(Tail(xs), IF KeyLt(xs[1], best) THEN xs[1] ELSE best)

\* the dict built for one bucket in _find_extremes; names are left to the key
Performance(b) ==
    [key |-> b.key, win_rate |-> b.win_rate, avg_pnl |-> b.avg_pnl,
     total_trades |-> b.total_trades, total_pnl |-> b.pnl]

MinHourTrades == 3
MinDayTrades == 5

Significant(dict, minimum) ==
    LET Enough(b) == b.total_trades >= minimum
        kept == SelectSeq(dict, Enough)
    IN [i \in 1 .. Len(kept) |-> Performance(kept[i])]

NegativeAvgPnl(h) == RLt(h.avg_pnl, R(0))

\* TimeAnalysis._find_extremes: sets the six attributes; {} is the empty dict
_find_extremes(s) ==
    LET peak_hours == SortDescending(Significant(s._hour_stats, MinHourTrades))
        weekday_perf == Significant(s._weekday_stats, MinDayTrades)
        month_perf == Significant(s._month_stats, MinDayTrades)
    IN [s EXCEPT
          !._peak_hours = Some(peak_hours),
          !._worst_hours = Some(SortAscending(SelectSeq(peak_hours, NegativeAvgPnl))),
          !._best_weekday = Some(IF weekday_perf # <<>>
                                 THEN Some(FirstMaxKey(Tail(weekday_perf), weekday_perf[1]))
                                 ELSE None),
          !._worst_weekday = Some(IF weekday_perf # <<>>
                                  THEN Some(FirstMinKey(Tail(weekday_perf), weekday_perf[1]))
                                  ELSE None),
          !._best_month = Some(IF month_perf # <<>>
                               THEN Some(FirstMaxKey(Tail(month_perf), month_perf[1]))
                               ELSE None),
          !._worst_month = Some(IF month_perf # <<>>
                                THEN Some(FirstMinKey(Tail(month_perf), month_perf[1]))
                                ELSE None)]

\* TimeAnalysis._analyze_all
_analyze_all(s) ==
    IF s._closed_trades = <<>> THEN s
    ELSE _find_extremes(_calculate_derived_stats(AnalyzeTrades(s, s._closed_trades)))

\* TimeAnalysis.__init__; an attribute that was never assigned is None
TimeAnalysis(ts) ==
    _analyze_all([trades |-> ts,
                  _closed_trades |-> SelectSeq(ts, is_closed),
                  _hour_stats |-> <<>>, _weekday_stats |-> <<>>,
                  _month_stats |-> <<>>, _session_stats |-> <<>>,
                  _period_stats |-> <<>>,
                  _peak_hours |-> None, _worst_hours |-> None,
                  _best_weekday |-> None, _worst_weekday |-> None,
                  _best_month |-> None, _worst_month |-> None])

\* the dict by_hour() ... by_period() build for one bucket (without "name")
BucketView(b) ==
    [key |-> b.key, total_trades |-> b.total_trades, wins |-> b.wins,
     losses |-> b.losses, win_rate |-> b.win_rate, loss_rate |-> b.loss_rate,
     total_pnl |-> b.pnl, avg_pnl |-> b.avg_pnl]

ViewAll(dict) == [i \in 1 .. Len(dict) |-> BucketView(dict[i])]

\* TimeAnalysis.by_hour, by_day_of_week, by_month, by_session, by_period
by_hour(self) == ViewAll(self._hour_stats)
by_day_of_week(self) == ViewAll(self._weekday_stats)
by_month(self) == ViewAll(self._month_stats)
by_session(self) == ViewAll(self._session_stats)
by_period(self) == ViewAll(self._period_stats)

\* xs[:limit]
Prefix(xs, limit) == SubSeq(xs, 1, Min2(limit, Len(xs)))

\* the session pairs of get_session_overlaps, in order
SessionPairs == <<<<"London", "New_York">>, <<"Asian", "London">>>>

Session(name) == SESSIONS[CHOOSE i \in 1 .. Len(SESSIONS) : SESSIONS[i].name = name]

\* (total_trades, win_rate, avg_pnl) <= as tuples
OverlapKeyLe(a, b) ==
    \/ a.total_trades < b.total_trades
    \/ a.total_trades = b.total_trades /\ KeyLe(a, b)

RECURSIVE SortOverlaps(_)
RECURSIVE InsertOverlap(_, _)
InsertOverlap(sorted, x) ==
    IF sorted = <<>> THEN <<x>>
    ELSE IF OverlapKeyLe(x, sorted[Len(sorted)]) THEN Append(sorted, x)
    ELSE Append(InsertOverlap(SubSeq(sorted, 1, Len(sorted) - 1), x), sorted[Len(sorted)])
SortOverlaps(xs) ==
    IF xs = <<>> THEN <<>>
    ELSE InsertOverlap(SortOverlaps(SubSeq(xs, 1, Len(xs) - 1)), xs[Len(xs)])

\* one iteration of the loop of get_session_overlaps: <<>> on "continue",
\* else the one entry appended
OverlapOf(self, pair) ==
    LET s1 == Session(pair[1])
        s2 == Session(pair[2])
        overlap_start == Max2(s1.start, s2.start)
        overlap_end == Min2(s1.end, s2.end)
        InOverlap(t) == t.close_time # None
                        /\ _time_in_range(time_of(Val(t.close_time)), overlap_start, overlap_end)
        overlap_trades == SelectSeq(self._closed_trades, InOverlap)
        total_trades == Len(overlap_trades)
    IN IF s1.start > s1.end \/ s2.start > s2.end THEN <<>>
       ELSE IF overlap_start >= overlap_end THEN <<>>
       ELSE IF overlap_trades = <<>> THEN <<>>
       ELSE <<[session_pair |-> pair,
               overlap_window_utc |-> <<overlap_start \div Minute, overlap_end \div Minute>>,
               total_trades |-> total_trades,
               wins |-> Len(SelectSeq(overlap_trades, IsWinning)),
               losses |-> Len(SelectSeq(overlap_trades, IsLosing)),
               win_rate |-> Rat(Len(SelectSeq(overlap_trades, IsWinning)), total_trades),
               total_pnl |-> SumProfit(overlap_trades),
               avg_pnl |-> Rat(SumProfit(overlap_trades), total_trades),
               trades |-> overlap_trades]>>

RECURSIVE OverlapsOf(_, _)
OverlapsOf(self, pairs) ==
    IF pairs = <<>> THEN <<>>
    ELSE OverlapOf(self, Head(pairs)) \o OverlapsOf(self, Tail(pairs))

\* TimeAnalysis.get_session_overlaps
get_session_overlaps(self) == SortOverlaps(OverlapsOf(self, SessionPairs))

\* the loop of get_best_session_overlap; best_score starts at -inf
RECURSIVE BestOverlap(_, _)
BestOverlap(overlaps, best) ==
    IF overlaps = <<>> THEN best
    ELSE LET o == Head(overlaps)
             Score(x) == RMul(x.win_rate, RMax(Rat(1, 10), x.avg_pnl))
         IN BestOverlap(Tail(overlaps),
               IF o.total_trades >= 3 /\ (best = None \/ RGt(Score(o), Score(Val(best))))
               THEN Some(o) ELSE best)

\* TimeAnalysis.get_best_session_overlap
get_best_session_overlap(self) == BestOverlap(get_session_overlaps(self), None)

\* TimeAnalysis._calculate_risk_score compared with a threshold:
\* score = min(100, max(0, (1 - win_rate) * 50 + min(20, 40 / sqrt(n)))),
\* with 40 / sqrt(n) < c decided as c > 0 /\ 1600 < c * c * n
RiskScoreBelow(b, threshold) ==
    LET base == RMul(RSub(R(1), b.win_rate), R(50))
        c == RSub(R(threshold), base)
    IN IF b.total_trades < 3 THEN 50 < threshold
       ELSE /\ threshold > 0
            /\ RGt(c, R(0))
            /\ (RGt(c, R(20)) \/ RGt(RMul(RMul(c, c), R(b.total_trades)), R(1600)))
RiskScoreAbove(b, threshold) ==
    LET base == RMul(RSub(R(1), b.win_rate), R(50))
        c == RSub(R(threshold), base)
    IN IF b.total_trades < 3 THEN 50 > threshold
       ELSE /\ threshold < 100
            /\ \/ RLt(c, R(0))
               \/ /\ RLt(c, R(20))
                  /\ RLt(RMul(RMul(c, c), R(b.total_trades)), R(1600))

\* RiskyHour with the threshold at 60
RiskyHourAbove60(b) == b.total_trades >= 3 /\ RiskScoreAbove(b, 60) /\ b.total_trades >= 5

RiskyHour(b) == b.total_trades >= 3 /\ RiskScoreAbove(b, 70) /\ b.total_trades >= 5
SafeSession(b) == b.total_trades >= 3 /\ RiskScoreBelow(b, 30) /\ b.total_trades >= 10

Message(text, about) == [text |-> text, about |-> about]
Messages(text, buckets) == [i \in 1 .. Len(buckets) |-> Message(text, buckets[i].key)]

\* the best-session loop of recommendations
RECURSIVE BestSession(_, _, _)
BestSession(sessions, best_session, best_win_rate) ==
    IF sessions = <<>> THEN <<best_session, best_win_rate>>
    ELSE LET st == Head(sessions)
         IN IF st.total_trades >= 5 /\ RGt(st.win_rate, best_win_rate)
            THEN BestSession(Tail(sessions), Some(st.key), st.win_rate)
            ELSE BestSession(Tail(sessions), best_session, best_win_rate)

\* TimeAnalysis.recommendations, when every attribute it reads is set
\* (messages without their interpolated numbers)
recommendations(self) ==
    IF self._closed_trades = <<>>
    THEN <<Message("No recommendations - insufficient trade data.", None)>>
    ELSE
    LET peak_hours == Prefix(Val(self._peak_hours), 2)
        worst_hours == Prefix(Val(self._worst_hours), 2)
        best_weekday == Val(self._best_weekday)
        worst_weekday == Val(self._worst_weekday)
        best == BestSession(by_session(self), None, R(0))
        best_overlap == get_best_session_overlap(self)
        recs ==
            (IF Len(peak_hours) >= 2
                /\ RGe(peak_hours[1].win_rate, Rat(6, 10))
                /\ peak_hours[1].total_trades >= 5
             THEN <<Message("Focus on trading during", peak_hours[1].key)>> ELSE <<>>)
            \o (IF Len(worst_hours) >= 1
                   /\ RLe(worst_hours[1].win_rate, Rat(4, 10))
                   /\ worst_hours[1].total_trades >= 5
                THEN <<Message("Avoid trading during", worst_hours[1].key)>> ELSE <<>>)
            \o (IF best_weekday # None /\ worst_weekday # None
                   /\ RGe(Val(best_weekday).win_rate, Rat(55, 100))
                THEN <<Message("is your strongest day", Val(best_weekday).key)>> ELSE <<>>)
            \o (IF best_weekday # None /\ worst_weekday # None
                   /\ RLe(Val(worst_weekday).win_rate, Rat(45, 100))
                THEN <<Message("Consider reducing trading activity on", Val(worst_weekday).key)>>
                ELSE <<>>)
            \o (IF best[1] # None /\ RGe(best[2], Rat(6, 10))
                THEN <<Message("session shows strong performance", Val(best[1]))>> ELSE <<>>)
            \o (IF best_overlap # None /\ Val(best_overlap).total_trades >= 5
                   /\ RGe(Val(best_overlap).win_rate, Rat(65, 100))
                THEN <<Message("shows excellent performance", Val(best_overlap).session_pair)>>
                ELSE <<>>)
            \o Messages("has high risk score", SelectSeq(self._hour_stats, RiskyHour))
            \o Messages("has low risk score", SelectSeq(self._session_stats, SafeSession))
    IN IF recs # <<>> THEN recs
       ELSE <<Message("Continue current trading schedule - no strong patterns detected.", None)>>

\* ------------------------------------------- TimeAnalysis: time-based risk
\* coef * sqrt(radicand): the value of statistics.stdev and of ** 0.5
Surd(coef, radicand) == [coef |-> coef, radicand |-> radicand]

\* [float(trade.profit) for trade in trades]
ProfitsOf(ts) == [i \in 1 .. Len(ts) |-> ts[i].profit]

RECURSIVE RSum(_)
RSum(xs) == IF xs = <<>> THEN R(0) ELSE RAdd(Head(xs), RSum(Tail(xs)))

\* the square of statistics.stdev(xs), for two or more values
SampleVariance(xs) ==
    LET mean == RDiv(RSum(xs), R(Len(xs)))
        squares == [i \in 1 .. Len(xs) |-> RMul(RSub(xs[i], mean), RSub(xs[i], mean))]
    IN RDiv(RSum(squares), R(Len(xs) - 1))

\* the loop of TimeAnalysis._calculate_max_drawdown from profits[i] on
RECURSIVE MaxDrawdownWalk(_, _, _, _)
MaxDrawdownWalk(profits, i, peak, max_dd) ==
    IF i > Len(profits) THEN max_dd
    ELSE LET top == Max2(peak, profits[i])
             dd == RDiv(R(top - profits[i]), RMax(R(Abs(top)), Rat(1, 100)))
         IN MaxDrawdownWalk(profits, i + 1, top, RMax(max_dd, dd))

\* TimeAnalysis._calculate_max_drawdown
_calculate_max_drawdown(profits) ==
    IF profits = <<>> THEN R(0) ELSE MaxDrawdownWalk(profits, 1, profits[1], R(0))

\* TimeAnalysis._calculate_sharpe_ratio (risk_free_rate = 0.02):
\* (mean_return / std_return) * 252 ** 0.5 is mean_return * sqrt(252 / variance)
_calculate_sharpe_ratio(profits) ==
    IF Len(profits) < 2 THEN Surd(R(0), R(1))
    ELSE LET excess_returns == [i \in 1 .. Len(profits) |->
                                   RSub(R(profits[i]), Rat(2, 100 * 252))]
             mean_return == RDiv(RSum(excess_returns), R(Len(excess_returns)))
             variance == SampleVariance(excess_returns)
         IN IF variance.n = 0 THEN Surd(R(0), R(1))
            ELSE Surd(mean_return, RDiv(R(252), variance))

\* TimeAnalysis._calculate_profit_factor
_calculate_profit_factor(profits) ==
    LET gross_profits == SumSeq([i \in 1 .. Len(profits) |-> Max2(profits[i], 0)])
        gross_losses == Abs(SumSeq([i \in 1 .. Len(profits) |-> Min2(profits[i], 0)]))
    IN IF gross_losses > 0 THEN Rat(gross_profits, gross_losses) ELSE Inf

\* TimeAnalysis._calculate_risk_score as rational + surd: base_score is within
\* [0, 50] and sample_adjustment = min(20, 40 / total_trades ** 0.5) is 20 up
\* to four trades, so the clamp to [0, 100] leaves the sum as it is
TimeRiskScore(b) ==
    IF b.total_trades < 3 THEN [rational |-> R(50), surd |-> Surd(R(0), R(1))]
    ELSE LET base_score == RMul(RSub(R(1), b.win_rate), R(50))
         IN IF b.total_trades <= 4
            THEN [rational |-> RAdd(base_score, R(20)), surd |-> Surd(R(0), R(1))]
            ELSE [rational |-> base_score, surd |-> Surd(R(40), Rat(1, b.total_trades))]

\* the days of the trades' close times, each once, in order of first use
RECURSIVE DaysOf(_, _)
DaysOf(ts, seen) ==
    IF ts = <<>> THEN seen
    ELSE LET day == Val(Head(ts).close_time) \div Day
         IN DaysOf(Tail(ts), IF \E i \in 1 .. Len(seen) : seen[i] = day
                             THEN seen ELSE Append(seen, day))

\* TimeAnalysis._calculate_avg_daily_risk
_calculate_avg_daily_risk(self) ==
    LET days == DaysOf(self._closed_trades, <<>>)
        OnDay(day) == SelectSeq(self._closed_trades,
                                LAMBDA t : Val(t.close_time) \div Day = day)
        daily_pnls == [i \in 1 .. Len(days) |-> R(SumSeq(ProfitsOf(OnDay(days[i]))))]
    IN IF Len(daily_pnls) < 2 THEN Surd(R(0), R(1))
       ELSE Surd(R(1), SampleVariance(daily_pnls))

\* sorted(profits)
RECURSIVE SortedProfits(_)
SortedProfits(profits) ==
    IF profits = <<>> THEN <<>>
    ELSE LET rest == SortedProfits(Tail(profits))
             below == SelectSeq(rest, LAMBDA x : x < Head(profits))
             above == SelectSeq(rest, LAMBDA x : x >= Head(profits))
         IN below \o <<Head(profits)>> \o above

\* TimeAnalysis._calculate_time_based_var: int(len * 0.05) is len \div 20
_calculate_time_based_var(self) ==
    LET hours == SelectSeq(self._hour_stats, LAMBDA b : b.total_trades >= 10)
    IN [i \in 1 .. Len(hours) |->
           [key |-> hours[i].key,
            var_95 |-> SortedProfits(ProfitsOf(hours[i].trades))
                           [(Len(hours[i].trades) \div 20) + 1]]]

\* one entry of risk_metrics["by_hour"] or risk_metrics["by_session"]
RiskEntry(b) ==
    [key |-> b.key,
     total_trades |-> b.total_trades,
     win_rate |-> b.win_rate,
     max_drawdown |-> _calculate_max_drawdown(ProfitsOf(b.trades)),
     sharpe_ratio |-> _calculate_sharpe_ratio(ProfitsOf(b.trades)),
     profit_factor |-> _calculate_profit_factor(ProfitsOf(b.trades)),
     risk_score |-> TimeRiskScore(b)]

RiskEntries(dict) ==
    LET enough == SelectSeq(dict, LAMBDA b : b.total_trades >= 3)
    IN [i \in 1 .. Len(enough) |-> RiskEntry(enough[i])]

\* TimeAnalysis.get_time_based_risk_metrics; "overall" is None for {}
get_time_based_risk_metrics(self) ==
    LET all_profits == ProfitsOf(self._closed_trades)
    IN [by_hour |-> RiskEntries(self._hour_stats),
        by_session |-> RiskEntries(self._session_stats),
        by_weekday |-> <<>>,
        overall |->
            IF all_profits = <<>> THEN None
            ELSE Some([total_trades |-> Len(self._closed_trades),
                       max_drawdown |-> _calculate_max_drawdown(all_profits),
                       sharpe_ratio |-> _calculate_sharpe_ratio(all_profits),
                       profit_factor |-> _calculate_profit_factor(all_profits),
                       avg_daily_risk |-> _calculate_avg_daily_risk(self),
                       time_based_var |-> _calculate_time_based_var(self)])]


\* ----------------------------------------------------------- TradeDatabase
\* decimal.Decimal as its tuple: sign, coefficient digits, exponent
Decimal(neg, coef, exp) == [neg |-> neg, coef |-> coef, exp |-> exp]

\* the value of a Decimal without leading and trailing zeros of the
\* coefficient: Decimal.__eq__ compares values, Decimal("3.10") == Decimal("3.1")
RECURSIVE Normalized(_)
Normalized(x) ==
    IF \A i \in 1 .. Len(x.coef) : x.coef[i] = 0 THEN Decimal(FALSE, <<0>>, 0)
    ELSE IF x.coef[1] = 0 THEN Normalized([x EXCEPT !.coef = Tail(@)])
    ELSE IF x.coef[Len(x.coef)] = 0
    THEN Normalized([x EXCEPT !.coef = SubSeq(@, 1, Len(@) - 1), !.exp = @ + 1])
    ELSE x

\* the double nearest to a Decimal of more than 15 significant digits, named
\* by the digits str() prints for it: 123456789.123456789 is stored as the
\* double 123456789.12345679
NearestDouble(x) ==
    CASE x.coef = <<1, 2, 3, 4, 5, 6, 7, 8, 9, 1, 2, 3, 4, 5, 6, 7, 8, 9>> /\ x.exp = -9 ->
            Decimal(x.neg, <<1, 2, 3, 4, 5, 6, 7, 8, 9, 1, 2, 3, 4, 5, 6, 7, 9>>, -8)

\* float(x) for a Decimal x, the double named by the shortest digits that
\* print it: a double holds every value of up to 15 significant digits
float(x) ==
    LET value == Normalized(x)
    IN IF Len(value.coef) <= 15 THEN value ELSE NearestDouble(value)

\* Decimal(str(real)) for a REAL column value
DecimalOfReal(real) == real

\* sqlite3's default adapter of datetime: the ISO text "YYYY-MM-DD HH:MM:SS"
adapt_datetime(t) ==
    [date |-> t \div Day, hour |-> (t % Day) \div Hour,
     minute |-> (t % Hour) \div Minute, second |-> t % Minute]

\* sqlite3's converter of TIMESTAMP columns (PARSE_DECLTYPES)
convert_timestamp(text) ==
    text.date * Day + text.hour * Hour + text.minute * Minute + text.second

\* the column values of the row save_trade writes
RowOf(trade) ==
    [ticket |-> trade.ticket,
     symbol |-> trade.symbol,
     open_time |-> adapt_datetime(trade.open_time),
     open_price |-> float(trade.open_price),
     close_time |-> IF trade.close_time = None THEN None
                    ELSE Some(adapt_datetime(Val(trade.close_time))),
     sl |-> IF trade.sl = None THEN None ELSE Some(float(Val(trade.sl))),
     tp |-> IF trade.tp = None THEN None ELSE Some(float(Val(trade.tp))),
     profit |-> float(trade.profit)]

\* TradeDatabase.save_trade: INSERT OR REPLACE on the primary key ticket; the
\* table is kept in the order SELECT * scans it, by ticket
save_trade(table, trade) ==
    LET before == SelectSeq(table, LAMBDA row : row.ticket < trade.ticket)
        after == SelectSeq(table, LAMBDA row : row.ticket > trade.ticket)
    IN before \o <<RowOf(trade)>> \o after

\* the Trade get_trades builds from one row
TradeOfRow(row) ==
    Trade(row.ticket, row.symbol, convert_timestamp(row.open_time),
          DecimalOfReal(row.open_price),
          IF row.close_time = None THEN None
          ELSE Some(convert_timestamp(Val(row.close_time))),
          IF row.sl = None THEN None ELSE Some(DecimalOfReal(Val(row.sl))),
          IF row.tp = None THEN None ELSE Some(DecimalOfReal(Val(row.tp))),
          DecimalOfReal(row.profit))

\* TradeDatabase.get_trades
get_trades(table) == [i \in 1 .. Len(table) |-> TradeOfRow(table[i])]


\* ============================================================ state machine
Init ==
    /\ trades = <<>>
    /\ stats = None
    /\ dda = None
    /\ ta = None
    /\ scorer = None
    /\ db = None
    /\ ret = None

NothingBuilt == stats = None /\ dda = None /\ ta = None /\ scorer = None /\ db = None

\* the caller appends one trade drawn from `inputs` to the list, up to `limit`
\* trades, before any analyzer is built from it
AddTradeFrom(inputs, limit) ==
    /\ NothingBuilt
    /\ Len(trades) < limit
    /\ \E i \in inputs :
          trades' = Append(trades, Trade(Len(trades) + 1, i.symbol, i.open_time,
                                         i.open_price, i.close_time, i.sl, i.tp,
                                         i.profit))
    /\ UNCHANGED <<db, stats, dda, ta, scorer, ret>>

\* a trade as the caller describes it, before it gets its ticket
Input(symbol, open_time, open_price, close_time, sl, tp, profit) ==
    [symbol |-> symbol, open_time |-> open_time, open_price |-> open_price,
     close_time |-> close_time, sl |-> sl, tp |-> tp, profit |-> profit]

\* a closed trade held for `held` seconds, without stop-loss or take-profit
ClosedInput(close_time, held, profit) ==
    Input("EURUSD", close_time - held, 11000, Some(close_time), None, None, profit)

\* a trade that is still open
OpenInput(open_time, profit) ==
    Input("EURUSD", open_time, 11000, None, None, None, profit)

Returned(op, val) == Some([op |-> op, exc |-> None, val |-> val])
Raised(op, exc) == Some([op |-> op, exc |-> Some(exc), val |-> None])

\* ------------------------------------------------- drawdown: inputs, actions
DrawdownProfits == -2 .. 2
DrawdownCloseTimes == {10 * Hour, 11 * Hour, Day + 10 * Hour}
DrawdownInputs ==
    {ClosedInput(t, 30 * Minute, p) : t \in DrawdownCloseTimes, p \in DrawdownProfits}
    \cup {OpenInput(10 * Hour, 1)}

\* create_drawdown_scenario_trades of test_drawdown.py
ScenarioTrade(block, i, profit) ==
    Trade(1000 * (block + 1) + i, "EURUSD", block * Day + (10 + i) * Hour, 11000,
          Some(block * Day + (10 + i) * Hour + 30 * Minute), None, None, profit)
DrawdownScenario ==
    [i \in 1 .. 5 |-> ScenarioTrade(0, i - 1, 50)]
    \o [i \in 1 .. 3 |-> ScenarioTrade(1, i - 1, -40)]
    \o [i \in 1 .. 4 |-> ScenarioTrade(2, i - 1, 50)]
    \o [i \in 1 .. 5 |-> ScenarioTrade(3, i - 1, -60)]

AddDrawdownTrade == AddTradeFrom(DrawdownInputs, MaxTrades)

LoadDrawdownScenario ==
    /\ NothingBuilt
    /\ trades = <<>>
    /\ trades' = DrawdownScenario
    /\ UNCHANGED <<db, stats, dda, ta, scorer, ret>>

NewDrawdownAnalyzer ==
    /\ NothingBuilt
    /\ \E initial_balance \in InitialBalances :
          dda' = Some(DrawdownAnalyzer(trades, initial_balance))
    /\ UNCHANGED <<db, trades, stats, ta, scorer, ret>>

GetAnalysis ==
    /\ dda # None
    /\ ret = None
    /\ ret' = Returned("get_analysis", get_analysis(Val(dda)))
    /\ UNCHANGED <<db, trades, stats, dda, ta, scorer>>

NextDrawdown ==
    \/ AddDrawdownTrade
    \/ LoadDrawdownScenario
    \/ NewDrawdownAnalyzer
    \/ GetAnalysis

SpecDrawdown == Init /\ [][NextDrawdown]_vars


\* ------------------------------- basic statistics and score: inputs, actions
StatsProfits == -2 .. 2
StatsCloseTimes == {10 * Hour, 11 * Hour, Day + 10 * Hour}
StatsInputs ==
    {ClosedInput(t, Hour, p) : t \in StatsCloseTimes, p \in StatsProfits}
    \cup {OpenInput(10 * Hour, 1)}

AddStatsTrade == AddTradeFrom(StatsInputs, MaxTrades)

NewBasicStats ==
    /\ NothingBuilt
    /\ stats' = Some(BasicStats(trades))
    /\ UNCHANGED <<db, trades, dda, ta, scorer, ret>>

GetStats ==
    /\ stats # None
    /\ ret = None
    /\ ret' = Returned("get_stats", Val(stats))
    /\ UNCHANGED <<db, trades, stats, dda, ta, scorer>>

NewPerformanceScorer ==
    /\ NothingBuilt
    /\ scorer' = Some(PerformanceScorer(trades))
    /\ UNCHANGED <<db, trades, stats, dda, ta, ret>>

CalculateOverallScore ==
    /\ scorer # None
    /\ ret = None
    /\ ret' = Returned("calculate_overall_score", calculate_overall_score(Val(scorer)))
    /\ UNCHANGED <<db, trades, stats, dda, ta, scorer>>

GradeAllTrades ==
    /\ scorer # None
    /\ ret = None
    /\ ret' = Returned("grade_all_trades", grade_all_trades(Val(scorer)))
    /\ UNCHANGED <<db, trades, stats, dda, ta, scorer>>

Next ==
    \/ AddStatsTrade
    \/ NewBasicStats
    \/ GetStats
    \/ NewPerformanceScorer
    \/ CalculateOverallScore
    \/ GradeAllTrades

Spec == Init /\ [][Next]_vars

\* --------------------------- statistics beside drawdown: inputs, actions
CompareProfits == {-2, -1, 2}
CompareCloseTimes == {10 * Hour, 11 * Hour, 12 * Hour}
CompareInputs ==
    {ClosedInput(t, 30 * Minute, p) : t \in CompareCloseTimes, p \in CompareProfits}
    \cup {OpenInput(10 * Hour, 1)}

AddCompareTrade == AddTradeFrom(CompareInputs, MaxTrades)

\* BasicStats built from the list a DrawdownAnalyzer was built from
NewBasicStatsBeside ==
    /\ dda # None
    /\ stats = None
    /\ ret = None
    /\ stats' = Some(BasicStats(trades))
    /\ UNCHANGED <<db, trades, dda, ta, scorer, ret>>

NextCompare ==
    \/ AddCompareTrade
    \/ NewDrawdownAnalyzer
    \/ NewBasicStatsBeside
    \/ GetAnalysis

SpecCompare == Init /\ [][NextCompare]_vars

\* ------------------------------------------ money fields: inputs, actions
MoneySymbols == {"EURUSD", "GBPUSD"}
MoneyInputs ==
    {Input(sym, 9 * Hour, 11000, Some(10 * Hour), None, None, p) :
        sym \in MoneySymbols, p \in {-2, 0, 1}}
    \cup {Input(sym, 9 * Hour, 11000, None, None, None, p) :
             sym \in MoneySymbols, p \in {-1, 1}}

AddMoneyTrade == AddTradeFrom(MoneyInputs, MaxTrades)

NextMoney ==
    \/ AddMoneyTrade
    \/ NewBasicStats
    \/ GetStats

SpecMoney == Init /\ [][NextMoney]_vars

\* ------------------------------------------- letter grades: inputs, actions
\* a trade with stop-loss and take-profit
GuardedInput(close_time, held, sl, tp, profit) ==
    Input("GBPUSD", close_time - held, 11000, Some(close_time), Some(sl), Some(tp), profit)

GradeInputs ==
    {ClosedInput(10 * Hour, Hour, 2),
     ClosedInput(11 * Hour, 30 * Minute, 1),
     ClosedInput(11 * Hour, 3 * Hour, -1),
     ClosedInput(Day + 10 * Hour, 9 * Hour, -2),
     ClosedInput(Day + 10 * Hour, Hour, 0),
     GuardedInput(12 * Hour, 2 * Hour, 10900, 11200, 2),
     GuardedInput(12 * Hour, 2 * Hour, 10900, 11100, 1),
     \* a pair of wins whose ratio puts the smaller one's score just under 60
     ClosedInput(13 * Hour, 45 * Minute, 1011),
     ClosedInput(14 * Hour, 45 * Minute, 361)}

\* the scores of test_letter_grade_conversion and the thousandths next to
\* every boundary
ScoreInputs ==
    {R(i) : i \in {0, 55, 59, 60, 65, 70, 75, 80, 85, 90, 95, 100}}
    \cup {Rat(1000 * b + e, 1000) : b \in {60, 70, 80, 90}, e \in {-1, 1}}

AddGradeTrade == AddTradeFrom(GradeInputs, MaxTrades)

GetLetterGrade ==
    /\ scorer # None
    /\ ret = None
    /\ \E score \in ScoreInputs :
          ret' = Returned("_get_letter_grade",
                          [score |-> score, grade |-> _get_letter_grade(score)])
    /\ UNCHANGED <<db, trades, stats, dda, ta, scorer>>

\* test_grade_distribution: grades = scorer.grade_all_trades() followed by
\* scorer.grade_distribution(grades); looking up an attribute the class does
\* not define raises AttributeError
GradeDistribution ==
    /\ scorer # None
    /\ ret = None
    /\ "grade_all_trades" \in PerformanceScorerMethods
    /\ "grade_distribution" \notin PerformanceScorerMethods
    /\ ret' = Raised("grade_distribution", "AttributeError")
    /\ UNCHANGED <<db, trades, stats, dda, ta, scorer>>

NextGrade ==
    \/ AddGradeTrade
    \/ NewPerformanceScorer
    \/ GetLetterGrade
    \/ CalculateOverallScore
    \/ GradeAllTrades
    \/ GradeDistribution

SpecGrade == Init /\ [][NextGrade]_vars

\* ------------------------------------------- time patterns: inputs, actions
Clock(h, m, sec) == h * Hour + m * Minute + sec

TimeCloseTimes ==
    {Clock(0, 0, 0), Clock(7, 59, 59), Clock(8, 0, 0), Clock(12, 0, 0),
     Clock(12, 59, 59), Clock(13, 0, 0), Clock(14, 0, 0), Clock(15, 59, 59),
     Clock(16, 0, 0), Clock(20, 0, 0), Clock(21, 0, 0), Clock(23, 58, 59),
     Clock(23, 59, 0), Clock(23, 59, 59)}

TimeInputs ==
    {ClosedInput(t, Hour, p) : t \in TimeCloseTimes, p \in {-1, 1}}
    \cup {ClosedInput(45 * Day + Clock(14, 0, 0), Hour, 0), OpenInput(10 * Hour, 1)}

AddTimeTrade == AddTradeFrom(TimeInputs, MaxTimeTrades)

NewTimeAnalysis ==
    /\ NothingBuilt
    /\ ta' = Some(TimeAnalysis(trades))
    /\ UNCHANGED <<db, trades, stats, dda, scorer, ret>>

\* a public accessor of TimeAnalysis that only reads dicts built in __init__
TimeCall(op, val) ==
    /\ ta # None
    /\ ret = None
    /\ ret' = Returned(op, val)
    /\ UNCHANGED <<db, trades, stats, dda, ta, scorer>>

\* a public accessor that reads the attribute `attr` set by _find_extremes:
\* reading an attribute that was never assigned raises AttributeError
TimeAttrCall(op, attr, val) ==
    /\ ta # None
    /\ ret = None
    /\ ret' = IF Val(ta)[attr] = None THEN Raised(op, "AttributeError")
              ELSE Returned(op, val)
    /\ UNCHANGED <<db, trades, stats, dda, ta, scorer>>

Limits == {2, 5}

BySession == TimeCall("by_session", by_session(Val(ta)))
ByPeriod == TimeCall("by_period", by_period(Val(ta)))
GetSessionOverlaps == TimeCall("get_session_overlaps", get_session_overlaps(Val(ta)))
Recommendations == TimeCall("recommendations", recommendations(Val(ta)))
GetPeakHours ==
    \E limit \in Limits :
        TimeAttrCall("get_peak_hours", "_peak_hours", Prefix(Val(Val(ta)._peak_hours), limit))
GetWorstHours ==
    \E limit \in Limits :
        TimeAttrCall("get_worst_hours", "_worst_hours", Prefix(Val(Val(ta)._worst_hours), limit))
GetBestWeekday ==
    TimeAttrCall("get_best_weekday", "_best_weekday", Val(Val(ta)._best_weekday))
GetBestMonth ==
    TimeAttrCall("get_best_month", "_best_month", Val(Val(ta)._best_month))

\* TimeAnalysis.get_all_stats: by_hour() ... by_period() succeed, then
\* get_peak_hours(5) is the first read of an attribute of _find_extremes
GetAllStats ==
    TimeAttrCall("get_all_stats", "_peak_hours",
        [by_hour |-> by_hour(Val(ta)),
         by_weekday |-> by_day_of_week(Val(ta)),
         by_month |-> by_month(Val(ta)),
         by_session |-> by_session(Val(ta)),
         by_period |-> by_period(Val(ta)),
         peak_hours |-> Prefix(Val(Val(ta)._peak_hours), 5),
         worst_hours |-> Prefix(Val(Val(ta)._worst_hours), 5),
         best_weekday |-> Val(Val(ta)._best_weekday),
         worst_weekday |-> Val(Val(ta)._worst_weekday),
         best_month |-> Val(Val(ta)._best_month),
         worst_month |-> Val(Val(ta)._worst_month),
         sessions |-> SESSIONS])

NextTime ==
    \/ AddTimeTrade
    \/ NewTimeAnalysis
    \/ BySession
    \/ ByPeriod
    \/ GetSessionOverlaps
    \/ Recommendations
    \/ GetPeakHours
    \/ GetWorstHours
    \/ GetBestWeekday
    \/ GetBestMonth
    \/ GetAllStats

SpecTime == Init /\ [][NextTime]_vars


\* ------------------------------------------ time-based risk: inputs, actions
RiskCloseTimes == {Clock(14, 0, 0), Day + Clock(14, 30, 0), Day + Clock(22, 0, 0)}
RiskInputs == {ClosedInput(t, Hour, p) : t \in RiskCloseTimes, p \in {-1, 1, 2}}

AddRiskTrade == AddTradeFrom(RiskInputs, MaxRiskTrades)

GetTimeBasedRiskMetrics ==
    TimeCall("get_time_based_risk_metrics", get_time_based_risk_metrics(Val(ta)))

NextRisk ==
    \/ AddRiskTrade
    \/ NewTimeAnalysis
    \/ GetTimeBasedRiskMetrics

SpecRisk == Init /\ [][NextRisk]_vars

\* ------------------------------------------ recommendations: inputs, actions
AdviceHours == {9, 14}
BatchSizes == {3, 5}

\* n trades closing in the same hour of day 0, the first `wins` of them
\* winning 1, the others losing 1
HourBatch(hour, n, wins, first_ticket) ==
    [i \in 1 .. n |->
        Trade(first_ticket + i - 1, "EURUSD", Clock(hour, 0, 0) - Hour, 11000,
              Some(Clock(hour, 0, 0)), None, None, IF i <= wins THEN 1 ELSE -1)]

AddHourBatch ==
    /\ NothingBuilt
    /\ \E hour \in AdviceHours, n \in BatchSizes :
          /\ Len(trades) + n <= MaxAdviceTrades
          /\ \E wins \in 0 .. n :
                trades' = trades \o HourBatch(hour, n, wins, Len(trades) + 1)
    /\ UNCHANGED <<db, stats, dda, ta, scorer, ret>>

NextAdvice ==
    \/ AddHourBatch
    \/ NewTimeAnalysis
    \/ Recommendations
    \/ GetTimeBasedRiskMetrics

SpecAdvice == Init /\ [][NextAdvice]_vars

\* ------------------------------------------------ trade store: inputs, actions
Precise == Decimal(FALSE, <<1, 2, 3, 4, 5, 6, 7, 8, 9, 1, 2, 3, 4, 5, 6, 7, 8, 9>>, -9)
Price == Decimal(FALSE, <<1, 1, 0, 0, 0>>, -4)
StopLoss == Decimal(FALSE, <<1, 0, 9, 5>>, -3)

\* open and closed trades, with and without stop-loss, with profits 5.25,
\* -3.10, 0.0 and 123456789.123456789
StoreTradesOf(ticket) ==
    LET opened == Clock(9, 0, 0)
        closed == Some(Day + Clock(10, 30, 15))
    IN {Trade(ticket, "EURUSD", opened, Price, None, None, None,
              Decimal(TRUE, <<3, 1, 0>>, -2)),
        Trade(ticket, "EURUSD", opened, Price, None, Some(StopLoss), None,
              Decimal(FALSE, <<0, 0>>, -1)),
        Trade(ticket, "EURUSD", opened, Price, closed, Some(StopLoss), Some(Price),
              Decimal(FALSE, <<5, 2, 5>>, -2)),
        Trade(ticket, "GBPUSD", opened, Price, closed, None, None, Precise),
        Trade(ticket, "GBPUSD", opened, Precise, closed, Some(Precise), None,
              Decimal(TRUE, <<3, 1, 0>>, -2))}

StoreTrades == StoreTradesOf(1) \cup StoreTradesOf(2)

NewTradeDatabase ==
    /\ NothingBuilt
    /\ trades = <<>>
    /\ db' = Some(<<>>)
    /\ UNCHANGED <<trades, stats, dda, ta, scorer, ret>>

\* the caller saves one more trade; `trades` lists the trades saved so far
SaveTrade ==
    /\ db # None
    /\ Len(trades) < MaxSaves
    /\ \E trade \in StoreTrades :
          /\ trades' = Append(trades, trade)
          /\ db' = Some(save_trade(Val(db), trade))
    /\ ret' = None
    /\ UNCHANGED <<stats, dda, ta, scorer>>

GetTrades ==
    /\ db # None
    /\ ret = None
    /\ ret' = Returned("get_trades", get_trades(Val(db)))
    /\ UNCHANGED <<trades, stats, dda, ta, scorer, db>>

NextStore ==
    \/ NewTradeDatabase
    \/ SaveTrade
    \/ GetTrades

SpecStore == Init /\ [][NextStore]_vars

\* ================================================================== claims
CalledGetAnalysis == ret # None /\ Val(ret).op = "get_analysis"
Analysis == Val(ret).val

\* C1: the drawdown periods returned by get_analysis() are in time order and
\* do not overlap (each period starts no earlier than the previous period's
\* end, and only the last period may have no end_date), and each period's
\* peak_equity is at least the previous period's peak_equity.
C1_PeriodsOrdered ==
    CalledGetAnalysis =>
        LET ps == Analysis.drawdown_periods
        IN \A i \in 2 .. Len(ps) :
              /\ ps[i - 1].end_date # None
              /\ ps[i].start_date >= Val(ps[i - 1].end_date)
              /\ ps[i].peak_equity >= ps[i - 1].peak_equity

\* a result with a recovered period followed by another period, built from
\* trades that were not given in close-time order
C1_Witness ==
    /\ CalledGetAnalysis
    /\ Len(Analysis.drawdown_periods) >= 2
    /\ \E i \in 2 .. Len(trades) :
          /\ is_closed(trades[i]) /\ is_closed(trades[i - 1])
          /\ Val(trades[i].close_time) < Val(trades[i - 1].close_time)

\* C2: with initial balance 10000 and the sequence 5 x (+50), 3 x (-40),
\* 4 x (+50), 5 x (-60), get_analysis() reports exactly two periods, the first
\* 120 deep and recovered, the second 300 deep and ongoing; max_drawdown and
\* current_drawdown are 300 and is_in_drawdown is true.
ScenarioAnalysed ==
    /\ CalledGetAnalysis
    /\ trades = DrawdownScenario
    /\ Val(dda).initial_balance = 10000

C2_ScenarioResult ==
    ScenarioAnalysed =>
        LET ps == Analysis.drawdown_periods
        IN /\ Len(ps) = 2
           /\ ps[1].max_depth = 120 /\ ps[1].recovery_date # None
           /\ ps[2].max_depth = 300 /\ ps[2].recovery_date = None
           /\ Analysis.max_drawdown = 300
           /\ Analysis.current_drawdown = 300
           /\ Analysis.is_in_drawdown

C2_Witness == ScenarioAnalysed /\ Len(Analysis.drawdown_periods) = 2

Called(op) == ret # None /\ Val(ret).op = op /\ Val(ret).exc = None
Result == Val(ret).val

Range(seq) == {seq[i] : i \in 1 .. Len(seq)}
Count(P(_), ts) == Cardinality({i \in 1 .. Len(ts) : P(ts[i])})

\* C3: closed_trades + open_trades == total_trades and win_trades +
\* loss_trades + breakeven_trades == closed_trades, where a trade is closed
\* exactly when its close_time is set and a closed trade is a win, loss or
\* breakeven by the sign of its profit.
ClosedWin(t) == t.close_time # None /\ t.profit > 0
ClosedLoss(t) == t.close_time # None /\ t.profit < 0
ClosedEven(t) == t.close_time # None /\ t.profit = 0
StillOpen(t) == t.close_time = None

C3_CountsPartition ==
    stats # None =>
        LET st == Val(stats)
        IN /\ st.closed_trades + st.open_trades = st.total_trades
           /\ st.win_trades + st.loss_trades + st.breakeven_trades = st.closed_trades
           /\ st.total_trades = Len(trades)
           /\ st.open_trades = Count(StillOpen, trades)
           /\ st.win_trades = Count(ClosedWin, trades)
           /\ st.loss_trades = Count(ClosedLoss, trades)
           /\ st.breakeven_trades = Count(ClosedEven, trades)

C3_Witness ==
    /\ stats # None
    /\ Val(stats).open_trades > 0
    /\ Val(stats).win_trades > 0
    /\ Val(stats).breakeven_trades > 0

\* C4: max_consecutive_wins (max_consecutive_losses) is the length of the
\* longest run of winning (losing) closed trades adjacent in ascending
\* close-time order (trades closing at the same time in input order); a
\* breakeven trade ends a run of either kind; both are 0 for an empty list.
Earlier(a, b) ==
    \/ Val(a.close_time) < Val(b.close_time)
    \/ Val(a.close_time) = Val(b.close_time) /\ a.ticket < b.ticket

Chronological(ts) ==
    LET closed == {t \in Range(ts) : t.close_time # None}
    IN [k \in 1 .. Cardinality(closed) |->
           CHOOSE t \in closed : Cardinality({u \in closed : Earlier(u, t)}) = k - 1]

LongestRun(P(_), ts) ==
    LET runs == {j - i + 1 : i \in 1 .. Len(ts), j \in 1 .. Len(ts)}
        IsRun(n) == \E i \in 1 .. Len(ts) - n + 1 : \A k \in i .. i + n - 1 : P(ts[k])
    IN IF \E n \in runs : n >= 1 /\ IsRun(n)
       THEN CHOOSE n \in runs : n >= 1 /\ IsRun(n) /\ \A m \in runs : (m >= 1 /\ IsRun(m)) => m <= n
       ELSE 0

C4_Streaks ==
    stats # None =>
        /\ Val(stats).max_consecutive_wins = LongestRun(IsWinning, Chronological(trades))
        /\ Val(stats).max_consecutive_losses = LongestRun(IsLosing, Chronological(trades))
        /\ trades = <<>> =>
              Val(stats).max_consecutive_wins = 0 /\ Val(stats).max_consecutive_losses = 0

\* a breakeven trade that closes between two wins, given out of time order
C4_Witness ==
    /\ stats # None
    /\ Len(trades) = 3
    /\ Val(stats).max_consecutive_wins = 1
    /\ LET order == Chronological(trades)
       IN /\ Len(order) = 3
          /\ order[1].profit > 0 /\ order[2].profit = 0 /\ order[3].profit > 0
          /\ order # trades

\* C6: profit_factor * total_gross_loss == total_gross_profit whenever
\* total_gross_loss > 0, and profit_factor is the no-losses sentinel
\* (infinity) whenever total_gross_loss == 0, also without closed trades.
C6_ProfitFactor ==
    stats # None =>
        LET st == Val(stats)
        IN IF st.total_gross_loss > 0
           THEN /\ ~IsInf(st.profit_factor)
                /\ RMul(st.profit_factor, R(st.total_gross_loss)) = R(st.total_gross_profit)
           ELSE st.total_gross_loss = 0 /\ st.profit_factor = Inf

C6_Witness ==
    /\ stats # None
    /\ Val(stats).total_gross_loss > 0
    /\ Val(stats).total_gross_profit > Val(stats).total_gross_loss

\* C7: calculate_overall_score() returns an overall_score within [0, 100] and
\* a letter_grade in {A, B, C, D, F}, for every trade list.
C7_ScoreInRange ==
    Called("calculate_overall_score") =>
        /\ RGe(Result.overall_score, R(0))
        /\ RLe(Result.overall_score, R(100))
        /\ Result.letter_grade \in {"A", "B", "C", "D", "F"}

\* C8: every score >= 90 maps to A, [80, 90) to B, [70, 80) to C, [60, 70) to
\* D and every score below 60 to F, and the same mapping gives the letter of
\* the overall score and of every individual trade grade.
InBand(grade, score) ==
    /\ grade = "A" <=> RGe(score, R(90))
    /\ grade = "B" <=> RGe(score, R(80)) /\ RLt(score, R(90))
    /\ grade = "C" <=> RGe(score, R(70)) /\ RLt(score, R(80))
    /\ grade = "D" <=> RGe(score, R(60)) /\ RLt(score, R(70))
    /\ grade = "F" <=> RLt(score, R(60))

WeightedScore(b) ==
    RAdd(RAdd(RMul(b.win_rate, Rat(4, 10)), RMul(b.risk_management, Rat(3, 10))),
         RMul(b.profit_factor, Rat(3, 10)))

TradeScore(b) == RMin(R(100), RAdd(b.profitability, R(b.duration + b.risk_reward)))

C8_LetterGrades ==
    /\ Called("_get_letter_grade") => InBand(Result.grade, Result.score)
    /\ Called("calculate_overall_score") =>
          InBand(Result.letter_grade, WeightedScore(Result.score_breakdown))
    /\ Called("grade_all_trades") =>
          \A i \in 1 .. Len(Result) : InBand(Result[i].grade, TradeScore(Result[i].breakdown))

C8_Witness ==
    /\ Called("_get_letter_grade")
    /\ Result.score = Rat(89999, 1000)
    /\ Result.grade = "B"

\* C9: every closed trade whose close time-of-day lies in [13:00, 16:00) UTC
\* is counted in the London, the New_York and the London_NY_Overlap bucket of
\* by_session(), and in the London/New_York entry of get_session_overlaps().
InBothSessions(t) ==
    /\ t.close_time # None
    /\ TimeOfDay(13, 0) <= Val(t.close_time) % Day
    /\ Val(t.close_time) % Day < TimeOfDay(16, 0)

InLondon(t) ==
    /\ t.close_time # None
    /\ TimeOfDay(8, 0) <= Val(t.close_time) % Day
    /\ Val(t.close_time) % Day < TimeOfDay(16, 0)

InNewYork(t) ==
    /\ t.close_time # None
    /\ TimeOfDay(13, 0) <= Val(t.close_time) % Day
    /\ Val(t.close_time) % Day < TimeOfDay(21, 0)

BucketCount(view, key) ==
    IF HasKey(view, key) THEN Lookup(view, key).total_trades ELSE 0

C9_OverlapCounted ==
    /\ ta # None =>
          \A t \in Range(trades) : InBothSessions(t) =>
              \A name \in {"London", "New_York", "London_NY_Overlap"} :
                  /\ HasKey(Val(ta)._session_stats, name)
                  /\ t \in Range(Lookup(Val(ta)._session_stats, name).trades)
    /\ Called("by_session") =>
          /\ BucketCount(Result, "London") = Count(InLondon, trades)
          /\ BucketCount(Result, "New_York") = Count(InNewYork, trades)
          /\ BucketCount(Result, "London_NY_Overlap") = Count(InBothSessions, trades)
    /\ Called("get_session_overlaps") =>
          \A t \in Range(trades) : InBothSessions(t) =>
              \E o \in Range(Result) :
                  /\ o.session_pair = <<"London", "New_York">>
                  /\ t \in Range(o.trades)
                  /\ o.total_trades = Count(InBothSessions, trades)

C9_Witness ==
    /\ Called("get_session_overlaps")
    /\ \E t \in Range(trades) : t.close_time = Some(Clock(13, 0, 0))
    /\ \E t \in Range(trades) : t.close_time = Some(Clock(15, 59, 59))
    /\ Result # <<>>

\* C10: every closed trade is assigned to exactly one period bucket: exactly
\* one of the five period windows contains its close time-of-day, so the
\* trade counts of the by_period() buckets sum to the number of closed trades.
WindowsContaining(tod) ==
    {k \in 1 .. Len(PERIODS) : PERIODS[k].start <= tod /\ tod < PERIODS[k].end}

C10_OnePeriodEach ==
    Called("by_period") =>
        /\ \A t \in Range(trades) :
              t.close_time # None =>
                  Cardinality(WindowsContaining(Val(t.close_time) % Day)) = 1
        /\ SumField(Result, "total_trades") = Count(is_closed, trades)

\* C5: on an empty trade collection every public accessor returns an
\* all-zero or empty snapshot and raises no exception.
EmptySnapshot(op, val) ==
    CASE op \in {"by_session", "by_period", "get_session_overlaps",
                 "get_peak_hours", "get_worst_hours"} -> val = <<>>
      [] op \in {"get_best_weekday", "get_best_month"} -> val = None
      [] op = "get_all_stats" ->
            /\ val.by_hour = <<>> /\ val.by_weekday = <<>> /\ val.by_month = <<>>
            /\ val.by_session = <<>> /\ val.by_period = <<>>
            /\ val.peak_hours = <<>> /\ val.worst_hours = <<>>
            /\ val.best_weekday = None /\ val.best_month = None
      [] op = "recommendations" -> Len(val) = 1 /\ val[1].about = None
      [] op = "get_analysis" ->
            val.drawdown_periods = <<>> /\ val.max_drawdown = 0 /\ ~val.is_in_drawdown
      [] op = "get_stats" -> val.total_trades = 0 /\ val.total_net_profit = 0
      [] op = "calculate_overall_score" -> val.overall_score = R(0)
      [] op = "grade_all_trades" -> val = <<>>
      [] OTHER -> TRUE

C5_EmptyInputNoException ==
    (trades = <<>> /\ ret # None) =>
        /\ Val(ret).exc = None
        /\ EmptySnapshot(Val(ret).op, Val(ret).val)

\* C11: in grade_individual_trade the profitability component of a losing
\* trade is max(0, 50 - (|profit| / maxLoss) * 50) with maxLoss the magnitude
\* of the largest loss of the portfolio: the worst loser gets 0, every loser
\* with a strictly smaller loss gets more than 0, a breakeven trade gets 50.
LargestLoss(ts) ==
    CHOOSE m \in {Abs(ts[i].profit) : i \in {j \in 1 .. Len(ts) : ts[j].profit < 0}} :
        \A k \in 1 .. Len(ts) : ts[k].profit < 0 => Abs(ts[k].profit) <= m

C11_LoserProfitability ==
    Called("grade_all_trades") =>
        \A i \in 1 .. Len(trades) :
            LET profitability == Result[i].breakdown.profitability
                loss == Abs(trades[i].profit)
            IN /\ trades[i].profit < 0 =>
                     /\ profitability =
                           RMax(R(0), RSub(R(50), RMul(Rat(loss, LargestLoss(trades)), R(50))))
                     /\ loss = LargestLoss(trades) => profitability = R(0)
                     /\ loss < LargestLoss(trades) => RGt(profitability, R(0))
               /\ trades[i].profit = 0 => profitability = R(50)

Within(x, lo, hi) == RGe(x, R(lo)) /\ RLe(x, R(hi))

\* C12: the win-rate score lies in the documented band of the win rate:
\* [30, 50] below 0.4, [50, 70] on [0.4, 0.5), [70, 90] on [0.5, 0.6) and
\* [90, 100] from 0.6 up to and including 1.0.
C12_WinRateBands ==
    Called("calculate_overall_score") =>
        LET win_rate == Val(scorer).stats_result.win_rate
            score == Result.score_breakdown.win_rate
        IN /\ RLt(win_rate, Rat(4, 10)) => Within(score, 30, 50)
           /\ RGe(win_rate, Rat(4, 10)) /\ RLt(win_rate, Rat(5, 10)) => Within(score, 50, 70)
           /\ RGe(win_rate, Rat(5, 10)) /\ RLt(win_rate, Rat(6, 10)) => Within(score, 70, 90)
           /\ RGe(win_rate, Rat(6, 10)) => Within(score, 90, 100)

\* C13: the profit-factor score lies in the documented band of the profit
\* factor: at most 50 below 1.2, [50, 70] on [1.2, 1.5), [70, 90] on
\* [1.5, 2.0) and [90, 100] from 2.0 on, the no-losses sentinel included.
C13_ProfitFactorBands ==
    Called("calculate_overall_score") =>
        LET profit_factor == Val(scorer).stats_result.profit_factor
            score == Result.score_breakdown.profit_factor
        IN /\ RLt(profit_factor, Rat(12, 10)) => RLe(score, R(50))
           /\ RGe(profit_factor, Rat(12, 10)) /\ RLt(profit_factor, Rat(15, 10)) =>
                 Within(score, 50, 70)
           /\ RGe(profit_factor, Rat(15, 10)) /\ RLt(profit_factor, R(2)) =>
                 Within(score, 70, 90)
           /\ RGe(profit_factor, R(2)) => Within(score, 90, 100)

\* C14: in the time-based risk view, the Sharpe-like ratio of a profit
\* sequence with zero variance (two or more trades, all with the same profit)
\* is a distinguished undefined value and never 0, and the profit factor of a
\* sequence without losses is the undefined sentinel (infinity).
ZeroVariance(profits) ==
    Len(profits) >= 2 /\ \A i \in 1 .. Len(profits) : profits[i] = profits[1]

NoLosses(profits) == \A i \in 1 .. Len(profits) : profits[i] >= 0

IsZeroSurd(x) == x.coef.n = 0 \/ x.radicand.n = 0

RiskViewDefined(entry, profits) ==
    /\ ZeroVariance(profits) => ~IsZeroSurd(entry.sharpe_ratio)
    /\ NoLosses(profits) => entry.profit_factor = Inf

C14_RiskViewUndefined ==
    Called("get_time_based_risk_metrics") =>
        /\ Result.overall # None =>
              RiskViewDefined(Val(Result.overall), ProfitsOf(Val(ta)._closed_trades))
        /\ \A i \in 1 .. Len(Result.by_hour) :
              RiskViewDefined(Result.by_hour[i],
                  ProfitsOf(Lookup(Val(ta)._hour_stats, Result.by_hour[i].key).trades))
        /\ \A i \in 1 .. Len(Result.by_session) :
              RiskViewDefined(Result.by_session[i],
                  ProfitsOf(Lookup(Val(ta)._session_stats, Result.by_session[i].key).trades))

\* C15: with at least one closed trade, expectancy is the expected profit per
\* closed trade, win_rate * avg_win - loss_rate * avg_loss with loss_rate =
\* loss_trades / closed_trades, and so equals avg_trade, breakeven trades
\* included.
C15_Expectancy ==
    (stats # None /\ Val(stats).closed_trades > 0) =>
        LET st == Val(stats)
            loss_rate == Rat(st.loss_trades, st.closed_trades)
        IN /\ st.expectancy =
                 RSub(RMul(st.win_rate, st.avg_win), RMul(loss_rate, st.avg_loss))
           /\ st.expectancy = st.avg_trade

\* C16: after any sequence of save_trade calls, get_trades() returns exactly
\* one record per distinct ticket saved, carrying the fields of the most
\* recent save for that ticket with the same closed/open state; saving the
\* same trade twice leaves the stored set unchanged.
SameDecimal(x, y) == Normalized(x) = Normalized(y)

SameOptionalDecimal(x, y) ==
    (x = None <=> y = None) /\ (x # None => SameDecimal(Val(x), Val(y)))

SameTrade(a, b) ==
    /\ a.ticket = b.ticket /\ a.symbol = b.symbol
    /\ a.open_time = b.open_time /\ a.close_time = b.close_time
    /\ SameDecimal(a.open_price, b.open_price)
    /\ SameOptionalDecimal(a.sl, b.sl) /\ SameOptionalDecimal(a.tp, b.tp)
    /\ SameDecimal(a.profit, b.profit)

LastSaved(ticket) ==
    trades[CHOOSE i \in 1 .. Len(trades) :
              /\ trades[i].ticket = ticket
              /\ \A j \in i + 1 .. Len(trades) : trades[j].ticket # ticket]

C16_UpsertByTicket ==
    Called("get_trades") =>
        /\ {Result[i].ticket : i \in 1 .. Len(Result)} = {t.ticket : t \in Range(trades)}
        /\ \A i, j \in 1 .. Len(Result) : Result[i].ticket = Result[j].ticket => i = j
        /\ \A i \in 1 .. Len(Result) :
              /\ SameTrade(Result[i], LastSaved(Result[i].ticket))
              /\ is_closed(Result[i]) <=> is_closed(LastSaved(Result[i].ticket))

\* C17: grade_all_trades() returns one TradeGrade per trade of the portfolio,
\* in portfolio order; each carries the decimal text of the trade's ticket as
\* trade_id, the trade's symbol, a score in [0, 100] equal to the rounded sum
\* of profitability, duration bonus and risk-reward bonus capped at 100, and a
\* grade among A, B, C, D, F.
RECURSIVE IntOfText(_)
IntOfText(text) ==
    LET value(c) == CHOOSE d \in 0 .. 9 :
                       <<"0", "1", "2", "3", "4", "5", "6", "7", "8", "9">>[d + 1] = c
    IN IF text = <<>> THEN 0
       ELSE 10 * IntOfText(SubSeq(text, 1, Len(text) - 1)) + value(text[Len(text)])

IsDecimalText(text) ==
    /\ Len(text) >= 1
    /\ \A i \in 1 .. Len(text) :
          text[i] \in {"0", "1", "2", "3", "4", "5", "6", "7", "8", "9"}
    /\ Len(text) > 1 => text[1] # "0"

C17_GradeAllTrades ==
    Called("grade_all_trades") =>
        /\ Len(Result) = Len(trades)
        /\ \A i \in 1 .. Len(Result) :
              /\ IsDecimalText(Result[i].trade_id)
              /\ IntOfText(Result[i].trade_id) = trades[i].ticket
              /\ Result[i].symbol = trades[i].symbol
              /\ Within(Result[i].score, 0, 100)
              /\ Result[i].score = Round2(TradeScore(Result[i].breakdown))
              /\ Result[i].grade \in {"A", "B", "C", "D", "F"}

\* two trades of different symbols, the first one's components adding up to
\* more than 100
C17_Witness ==
    /\ Called("grade_all_trades")
    /\ Len(Result) >= 2
    /\ Result[1].symbol # Result[2].symbol
    /\ RGt(RAdd(Result[1].breakdown.profitability,
                R(Result[1].breakdown.duration + Result[1].breakdown.risk_reward)), R(100))
    /\ Result[1].score = R(100)

\* C18: grade_distribution(grades), applied to the result of
\* grade_all_trades(), returns for each of the letters A, B, C, D, F a count
\* >= 0 and a fraction pct in [0, 1], and the counts add up to the number of
\* trades graded.
Letters == <<"A", "B", "C", "D", "F">>

C18_GradeDistribution ==
    (ret # None /\ Val(ret).op = "grade_distribution") =>
        /\ Val(ret).exc = None
        /\ \A i \in 1 .. Len(Letters) :
              /\ Result[Letters[i]].count >= 0
              /\ Within(Result[Letters[i]].pct, 0, 1)
        /\ SumSeq([i \in 1 .. Len(Letters) |-> Result[Letters[i]].count]) = Len(trades)

\* C19: the start_date of every drawdown period is the time of the curve
\* point at which the period's peak_equity was reached, the point before the
\* balance first falls below that peak, and not the time of the falling point;
\* when the first trade is a loss, the first period starts at the curve's
\* start point, one minute before the first close time, with the initial
\* balance as its peak_equity.
EquityCurve == Val(dda)._equity_curve

\* the first curve point whose balance is the period's peak
IsPeakPoint(k, period) ==
    /\ EquityCurve[k].balance = period.peak_equity
    /\ \A j \in 1 .. k - 1 : EquityCurve[j].balance < period.peak_equity

\* the first curve point after point k whose balance is below the peak
IsFirstDip(first, k, period) ==
    /\ first > k
    /\ EquityCurve[first].balance < period.peak_equity
    /\ \A j \in k .. first - 1 : EquityCurve[j].balance = period.peak_equity

C19_StartAtPeak ==
    CalledGetAnalysis =>
        LET ps == Analysis.drawdown_periods
            sorted == Val(dda).trades
        IN /\ \A i \in 1 .. Len(ps) :
                 \E k, first \in 1 .. Len(EquityCurve) :
                     /\ IsPeakPoint(k, ps[i])
                     /\ IsFirstDip(first, k, ps[i])
                     /\ ps[i].start_date = EquityCurve[k].time
                     /\ EquityCurve[first].time # EquityCurve[k].time =>
                            ps[i].start_date # EquityCurve[first].time
           /\ (sorted # <<>> /\ sorted[1].profit < 0) =>
                 /\ ps # <<>>
                 /\ ps[1].start_date = Val(sorted[1].close_time) - Minute
                 /\ ps[1].peak_equity = Val(dda).initial_balance

\* a first trade that loses, a recovery, and a second period whose dip comes
\* later than its peak
C19_Witness ==
    /\ CalledGetAnalysis
    /\ Len(Analysis.drawdown_periods) = 2
    /\ Val(dda).trades[1].profit < 0
    /\ Analysis.drawdown_periods[1].start_date = Val(Val(dda).trades[1].close_time) - Minute
    /\ Analysis.drawdown_periods[2].start_date = Val(Val(dda).trades[2].close_time)
    /\ Val(Val(dda).trades[3].close_time) > Val(Val(dda).trades[2].close_time)

\* C20: in the periods of get_analysis() at most one period is ongoing
\* (end_date and recovery_date both unset) and it is the last one; every other
\* period has end_date = recovery_date = the time of the first curve point
\* whose balance exceeds the period's peak, duration = end_date - start_date,
\* trough_equity < peak_equity, max_depth = peak_equity - trough_equity > 0,
\* and trough_equity is the lowest balance between the peak and the recovery.
Ongoing(period) == period.end_date = None /\ period.recovery_date = None

\* the first curve point whose balance exceeds the period's peak
IsRecoveryPoint(r, period) ==
    /\ EquityCurve[r].balance > period.peak_equity
    /\ \A j \in 1 .. r - 1 : EquityCurve[j].balance <= period.peak_equity

C20_PeriodShape ==
    CalledGetAnalysis =>
        LET ps == Analysis.drawdown_periods
        IN \A i \in 1 .. Len(ps) :
              /\ Ongoing(ps[i]) => i = Len(ps)
              /\ ~Ongoing(ps[i]) =>
                    \E k, r \in 1 .. Len(EquityCurve) :
                        /\ IsPeakPoint(k, ps[i])
                        /\ IsRecoveryPoint(r, ps[i])
                        /\ ps[i].end_date = Some(EquityCurve[r].time)
                        /\ ps[i].recovery_date = ps[i].end_date
                        /\ ps[i].duration = Val(ps[i].end_date) - ps[i].start_date
                        /\ ps[i].trough_equity < ps[i].peak_equity
                        /\ ps[i].max_depth = ps[i].peak_equity - ps[i].trough_equity
                        /\ ps[i].max_depth > 0
                        /\ \E j \in k .. r - 1 : EquityCurve[j].balance = ps[i].trough_equity
                        /\ \A j \in k .. r - 1 : EquityCurve[j].balance >= ps[i].trough_equity

\* a recovered period whose trough lies below its first dip, followed by an
\* ongoing period
C20_Witness ==
    /\ CalledGetAnalysis
    /\ Len(Analysis.drawdown_periods) = 2
    /\ ~Ongoing(Analysis.drawdown_periods[1])
    /\ Ongoing(Analysis.drawdown_periods[2])
    /\ \E k \in 1 .. Len(EquityCurve) - 2 :
          /\ IsPeakPoint(k, Analysis.drawdown_periods[1])
          /\ EquityCurve[k + 1].balance > Analysis.drawdown_periods[1].trough_equity
          /\ EquityCurve[k + 1].balance < Analysis.drawdown_periods[1].peak_equity

\* C21: every drawdown period is a maximal interval in which equity stays
\* below its peak: every curve point after the period's peak point and before
\* its recovery point (or up to the end of the curve for an ongoing period)
\* has a balance strictly below the period's peak_equity, also when the equity
\* returns exactly to the peak value without exceeding it.
\* the curve points of a period: k its peak point, last the point before its
\* recovery point, or the last curve point when the period is ongoing
SpansPoints(period, k, last) ==
    /\ IsPeakPoint(k, period)
    /\ last >= k
    /\ IF Ongoing(period)
       THEN last = Len(EquityCurve)
       ELSE /\ last < Len(EquityCurve)
            /\ EquityCurve[last + 1].time = Val(period.end_date)
            /\ EquityCurve[last + 1].balance > period.peak_equity

C21_StrictlyBelowPeak ==
    CalledGetAnalysis =>
        \A i \in 1 .. Len(Analysis.drawdown_periods) :
            LET period == Analysis.drawdown_periods[i]
            IN \E k, last \in 1 .. Len(EquityCurve) :
                  /\ SpansPoints(period, k, last)
                  /\ \A j \in k + 1 .. last : EquityCurve[j].balance < period.peak_equity

\* C22: whenever the best-ranked hour (at least 3 trades, first by
\* (win_rate, avg_pnl) descending) has win_rate >= 0.6 and at least 5 trades,
\* recommendations() contains the "Focus on trading during" message for that
\* hour, also when it is the only hour with at least 3 trades; and whenever
\* the first worst hour has win_rate <= 0.4 and at least 5 trades,
\* recommendations() contains the "Avoid trading during" message for it.
Recommends(text, about) ==
    \E i \in 1 .. Len(Result) : Result[i] = [text |-> text, about |-> about]

C22_FocusAndAvoid ==
    Called("recommendations") =>
        LET peak_hours == Val(Val(ta)._peak_hours)
            worst_hours == Val(Val(ta)._worst_hours)
        IN /\ (/\ trades # <<>>
               /\ peak_hours # <<>>
               /\ RGe(peak_hours[1].win_rate, Rat(6, 10))
               /\ peak_hours[1].total_trades >= 5) =>
                 Recommends("Focus on trading during", peak_hours[1].key)
           /\ (/\ trades # <<>>
               /\ worst_hours # <<>>
               /\ RLe(worst_hours[1].win_rate, Rat(4, 10))
               /\ worst_hours[1].total_trades >= 5) =>
                 Recommends("Avoid trading during", worst_hours[1].key)

\* C30: the time-based risk score of an hour or session bucket is at most 70
\* (at most 50 + min(20, 40 / sqrt(n)) for its n >= 3 trades), and
\* recommendations() never contains the "has high risk score" message, whose
\* rule asks for a risk score above 70 on an hour with at least 5 trades.
\* score.rational + score.surd <= limit
ScoreAtMost(score, limit) ==
    LET c == RSub(R(limit), score.rational)
    IN /\ RGe(c, R(0))
       /\ RGe(score.surd.coef, R(0))
       /\ RLe(RMul(RMul(score.surd.coef, score.surd.coef), score.surd.radicand), RMul(c, c))

\* score <= 50 + min(20, 40 / sqrt(n))
WithinSampleAllowance(score, n) ==
    /\ n >= 3
    /\ IF n <= 4
       THEN score.surd.coef = R(0) /\ RLe(score.rational, R(70))
       ELSE /\ RLe(score.rational, R(50))
            /\ score.surd = [coef |-> R(40), radicand |-> Rat(1, n)]

ScoresBounded(view) ==
    \A i \in 1 .. Len(view) :
        /\ ScoreAtMost(view[i].risk_score, 70)
        /\ WithinSampleAllowance(view[i].risk_score, view[i].total_trades)

C30_NoHighRiskMessage ==
    /\ Called("get_time_based_risk_metrics") =>
          /\ ScoresBounded(Result.by_hour)
          /\ ScoresBounded(Result.by_session)
    /\ Called("recommendations") =>
          \A i \in 1 .. Len(Result) : Result[i].text # "has high risk score"

\* recommendations() on an hour of at least five trades that all lost, the
\* riskiest bucket there is
C30_Witness ==
    /\ Called("recommendations")
    /\ \E i \in 1 .. Len(Val(ta)._hour_stats) :
          /\ Val(ta)._hour_stats[i].total_trades >= 5
          /\ Val(ta)._hour_stats[i].wins = 0

\* C23: the result of get_analysis() has is_in_drawdown true if and only if
\* its period list ends with an ongoing period (end_date unset); a result
\* never holds an ongoing period while it reports current_drawdown = 0 and
\* is_in_drawdown false.
EndsOngoing(ps) == ps # <<>> /\ ps[Len(ps)].end_date = None

C23_InDrawdownIffOngoing ==
    CalledGetAnalysis =>
        /\ Analysis.is_in_drawdown <=> EndsOngoing(Analysis.drawdown_periods)
        /\ ~(/\ EndsOngoing(Analysis.drawdown_periods)
              /\ Analysis.current_drawdown = 0
              /\ ~Analysis.is_in_drawdown)

\* C24: for every trade list and every initial balance, the
\* max_drawdown_amount of BasicStats equals the max_drawdown of
\* DrawdownAnalyzer.get_analysis() computed from the same trades.
BothBuilt == CalledGetAnalysis /\ stats # None

C24_SameMaxDrawdown ==
    BothBuilt => Val(stats).max_drawdown_amount = Analysis.max_drawdown

\* two periods of different depth, from trades given out of close-time order
C24_Witness ==
    /\ BothBuilt
    /\ Len(Analysis.drawdown_periods) = 2
    /\ Analysis.max_drawdown > Analysis.drawdown_periods[1].max_depth
    /\ Val(stats).max_drawdown_amount = 2
    /\ \E i \in 2 .. Len(trades) :
          /\ is_closed(trades[i]) /\ is_closed(trades[i - 1])
          /\ Val(trades[i].close_time) < Val(trades[i - 1].close_time)

\* C25: the result of get_analysis() satisfies
\* 0 <= current_drawdown <= max_drawdown, where current_drawdown is the highest
\* balance on the equity curve minus the last balance and the last balance is
\* the initial balance plus the sum of all closed profits; the curve of a list
\* with at least one closed trade has one point per closed trade plus one
\* starting point, and the curve of a list without closed trades is empty,
\* with current_drawdown = max_drawdown = 0.
ClosedProfit == SumSeq([i \in 1 .. Len(trades) |->
                          IF is_closed(trades[i]) THEN trades[i].profit ELSE 0])
ClosedCount == Cardinality({i \in 1 .. Len(trades) : is_closed(trades[i])})
HighestBalance ==
    CHOOSE b \in {EquityCurve[i].balance : i \in 1 .. Len(EquityCurve)} :
        \A i \in 1 .. Len(EquityCurve) : EquityCurve[i].balance <= b

CurrentWithinMax ==
    /\ 0 <= Analysis.current_drawdown
    /\ Analysis.current_drawdown <= Analysis.max_drawdown
    /\ EquityCurve # <<>> =>
          /\ Analysis.current_drawdown = HighestBalance - EquityCurve[Len(EquityCurve)].balance
          /\ EquityCurve[Len(EquityCurve)].balance = Val(dda).initial_balance + ClosedProfit

C25_CurrentWithinMax ==
    CalledGetAnalysis =>
        /\ CurrentWithinMax
        /\ ClosedCount > 0 => Len(EquityCurve) = ClosedCount + 1
        /\ ClosedCount = 0 =>
              /\ EquityCurve = <<>>
              /\ Analysis.current_drawdown = 0
              /\ Analysis.max_drawdown = 0

\* C25 as stated: the curve of every list has one point per closed trade plus
\* one synthetic starting point.
C25_AlwaysStartPoint ==
    CalledGetAnalysis =>
        /\ CurrentWithinMax
        /\ Len(EquityCurve) = ClosedCount + 1

\* a current drawdown that is positive and smaller than the deepest one, on a
\* list that also holds an open trade
C25_Witness ==
    /\ CalledGetAnalysis
    /\ 0 < Analysis.current_drawdown
    /\ Analysis.current_drawdown < Analysis.max_drawdown
    /\ ClosedCount < Len(trades)
    /\ Len(EquityCurve) = ClosedCount + 1

\* C26: in the snapshot of get_stats(),
\* total_net_profit = total_gross_profit - total_gross_loss = the sum of
\* profit_per_trade over all symbols, and the profit of an open trade counts in
\* none of these fields nor in win_trades or loss_trades: each field is the
\* sum or the count over the closed trades alone.
RECURSIVE SumOver(_, _)
SumOver(f, keys) ==
    IF keys = {} THEN 0
    ELSE LET k == CHOOSE x \in keys : TRUE IN f[k] + SumOver(f, keys \ {k})

\* the closed trades of the caller's list that satisfy P, by position
ClosedWhere(P(_)) == {i \in 1 .. Len(trades) : is_closed(trades[i]) /\ P(trades[i])}
ProfitOver(positions) == SumOver([i \in positions |-> trades[i].profit], positions)

C26_MoneyConserved ==
    Called("get_stats") =>
        /\ Result.total_net_profit = Result.total_gross_profit - Result.total_gross_loss
        /\ Result.total_net_profit =
              SumOver(Result.profit_per_trade, DOMAIN Result.profit_per_trade)
        /\ Result.total_net_profit = ProfitOver(ClosedWhere(LAMBDA t : TRUE))
        /\ Result.total_gross_profit = ProfitOver(ClosedWhere(LAMBDA t : t.profit > 0))
        /\ Result.total_gross_loss = 0 - ProfitOver(ClosedWhere(LAMBDA t : t.profit < 0))
        /\ Result.win_trades = Cardinality(ClosedWhere(LAMBDA t : t.profit > 0))
        /\ Result.loss_trades = Cardinality(ClosedWhere(LAMBDA t : t.profit < 0))
        /\ DOMAIN Result.profit_per_trade =
              {trades[i].symbol : i \in ClosedWhere(LAMBDA t : TRUE)}
        /\ \A sym \in DOMAIN Result.profit_per_trade :
              Result.profit_per_trade[sym] =
                  ProfitOver(ClosedWhere(LAMBDA t : t.symbol = sym))

\* a winner and a loser of different symbols beside an open trade in profit
C26_Witness ==
    /\ Called("get_stats")
    /\ Result.win_trades = 1 /\ Result.loss_trades = 1
    /\ Cardinality(DOMAIN Result.profit_per_trade) = 2
    /\ \E i \in 1 .. Len(trades) : ~is_closed(trades[i]) /\ trades[i].profit # 0

\* C27: when the closed trades have pairwise distinct close times, the
\* BasicStats snapshot and the DrawdownAnalyzer period list are the same for
\* every ordering of the input list; building an analyzer leaves the caller's
\* list in its original order; closed trades that share a close time are
\* processed in their input order.
DistinctCloseTimes ==
    \A i, j \in 1 .. Len(trades) :
        (is_closed(trades[i]) /\ is_closed(trades[j]) /\ i # j) =>
            trades[i].close_time # trades[j].close_time

\* the caller's list in every order
Orderings ==
    {[i \in 1 .. Len(trades) |-> trades[f[i]]] : f \in Permutations(1 .. Len(trades))}

AnalyzersBuilt == dda # None /\ stats # None

C27_OrderIndependent ==
    AnalyzersBuilt =>
        /\ DistinctCloseTimes =>
              \A order \in Orderings :
                  /\ BasicStats(order) = Val(stats)
                  /\ DrawdownAnalyzer(order, Val(dda).initial_balance)._drawdown_periods
                        = Val(dda)._drawdown_periods
        /\ \A i \in 1 .. Len(trades) : trades[i].ticket = i
        /\ Val(dda).trades = Chronological(trades)
        /\ Val(stats).max_drawdown_amount =
              BasicStats(Chronological(trades)).max_drawdown_amount
        /\ Val(stats).max_consecutive_wins = LongestRun(IsWinning, Chronological(trades))
        /\ Val(stats).max_consecutive_losses = LongestRun(IsLosing, Chronological(trades))

\* three closed trades of distinct close times given latest first, with a
\* drawdown period among them
C27_Witness ==
    /\ AnalyzersBuilt
    /\ DistinctCloseTimes
    /\ Len(Val(dda).trades) = 3
    /\ Val(dda).trades[1] = trades[3] /\ Val(dda).trades[3] = trades[1]
    /\ Val(dda)._drawdown_periods # <<>>
    /\ Val(stats).max_consecutive_wins = 2

\* C28: in every PerformanceScore and every TradeGrade returned, the letter
\* grade is the one the grade mapping assigns to the reported score, the value
\* rounded to 2 decimals: a reported score >= 90 comes with A, one in [80, 90)
\* with B, and so on.
C28_GradeOfReportedScore ==
    /\ Called("calculate_overall_score") =>
          InBand(Result.letter_grade, Result.overall_score)
    /\ Called("grade_all_trades") =>
          \A i \in 1 .. Len(Result) : InBand(Result[i].grade, Result[i].score)

\* C29: get_session_overlaps() returns at most one entry, never one for the
\* Asian-London pair, and when the London-New_York entry is present its
\* total_trades, wins and losses equal those of the London_NY_Overlap bucket
\* of by_session().
SameCounts(entry, bucket) ==
    /\ entry.total_trades = bucket.total_trades
    /\ entry.wins = bucket.wins
    /\ entry.losses = bucket.losses

C29_OverlapEntry ==
    Called("get_session_overlaps") =>
        /\ Len(Result) <= 1
        /\ \A i \in 1 .. Len(Result) :
              /\ Result[i].session_pair = <<"London", "New_York">>
              /\ HasKey(by_session(Val(ta)), "London_NY_Overlap")
              /\ SameCounts(Result[i], Lookup(by_session(Val(ta)), "London_NY_Overlap"))

\* a win inside the overlap window beside a trade closed at 08:00, where the
\* Asian window ends and the London one starts
C29_Witness ==
    /\ Called("get_session_overlaps")
    /\ Len(Result) = 1
    /\ Result[1].total_trades = 1
    /\ Result[1].wins = 1
    /\ \E i \in 1 .. Len(trades) :
          trades[i].close_time # None /\ time_of(Val(trades[i].close_time)) = Clock(8, 0, 0)
====
